---------------------------- MODULE Spec2Model ----------------------------
(***************************************************************************)
(* A model of the caching core of wa-pocket-assistant: the persistent      *)
(* contact directory (contactStore.ts, found in the second half of         *)
(* src/src/handlers/groupCommandHandler.ts), the name resolver             *)
(* (contactExtractor.ts), the TTL snapshot stores (groupsStorage.ts,       *)
(* historyStorage.ts) and the groups registry (groupManager.ts, found in   *)
(* the second half of src/src/handlers/contactExtractor.ts).               *)
(*                                                                         *)
(* Each subsystem has its own specification over the shared variables;     *)
(* the variables of the other subsystems stay at their initial values.     *)
(***************************************************************************)
EXTENDS Integers, Sequences, FiniteSets, TLC

VARIABLES
    \* ---- contact directory (contactStore.ts)
    contactStore,   \* the module-level map, as the sequence of its entries in insertion order
    saveTimeout,    \* TRUE when the module variable saveTimeout holds a timer handle
    pendingSaves,   \* ticks left of every pending debounce timer, oldest first
    primaryFile,    \* content of data/contacts.json
    backupFile,     \* content of data/contacts_backup.json
    flushLog,       \* what the savePersistedContacts run of the last step did
    sinceCall,      \* ticks since the last addContactToStore call (capped)
    sinceSched,     \* ticks since the last debouncedSaveContacts call (capped)
    burstCalls,     \* debouncedSaveContacts calls of the current burst (capped)
    burstSaves,     \* debounced savePersistedContacts runs since the burst began
    burstStore,     \* the store, as JSON, after the last call that scheduled a save
    burstCleared,   \* clearAllContacts ran since the burst began
    burstPayload,   \* what the last debounced run was asked to write
    \* ---- name resolver (contactExtractor.ts)
    found,          \* the last findContactByName call: its query, the probe, its result
    \* ---- TTL snapshot stores (groupsStorage.ts, historyStorage.ts)
    now,            \* Date.now(), in ms
    groupsFile,     \* content of groups_cache.json
    historyFile,    \* content of the history file of the conversation JGroup
    loaded,         \* the last direct loadGroups / loadGroupHistory call: age and result
    \* ---- groups registry (groupManager.ts)
    groupsCache,    \* the Map groupsCache, as the sequence of its values in insertion order
    call,           \* the getAllGroups call in flight, or the last one
    \* ---- metadata queue (groupManager.ts)
    metadataQueue,      \* the array metadataQueue; seq numbers the pushes
    isProcessingQueue,  \* the module flag
    runs,               \* the processMetadataQueue runs between their first shift and their end
    timers,             \* pending setTimeout(() => processMetadataQueue(sock), ms), per ms
    pushed,             \* entries pushed so far, by handlers and by retries
    fetched,            \* sock.groupMetadata calls issued so far
    failures,           \* 1 once a sock.groupMetadata call has thrown, 0 before
    lastFetch,          \* the last sock.groupMetadata call that came back: its entry, its answer
    enqueued,           \* entries pushed so far by the event handlers
    \* ---- start of the contact directory (contactStore.ts)
    startup,            \* the last initializeContactStore call: what the reads did, what it took
    \* ---- conversation histories (historyStorage.ts, historyHandler.ts)
    history,            \* the last getGroupHistory call: its query, its outcome
    historyIndex,       \* content of history_cache/history_index.json
    historyFileG2,      \* content of the history file of the conversation G2
    cleaned,            \* the last cleanExpiredHistoryCache run: when, what the unlinks did
    \* ---- suggestions (contactExtractor.ts)
    suggested,          \* the last tryGetContactNameFromUser call: its query, its candidates
    \* ---- renamed senders (contactExtractor.ts)
    inbound,            \* the pushName of the last message of J1 and of the one before
    \* ---- the assistant (messageProcessor.ts)
    pa,                 \* the handlePAMessage call in flight, or the last one
    sent,               \* the sock.sendMessage calls of that call, in order
    \* ---- how the storage operations end
    storageCall,        \* the last storage operation: its name, its I/O, how it ended
    \* ---- the messages.upsert handler (paMessageHandler.ts)
    upsert,             \* the event being handled, or the last one, and its handlePAMessage calls
    \* ---- the commands /cacheinfo and /groups (groupCommandHandler.ts)
    cmd,                \* the last command: what /cacheinfo reported, what /groups listed
    \* ---- saveGroupHistory calls in flight (historyStorage.ts)
    saves               \* per conversation, the saveGroupHistory call: its await, its locals

contactVars == <<contactStore, saveTimeout, pendingSaves, primaryFile, backupFile,
                 flushLog, sinceCall, sinceSched, burstCalls, burstSaves, burstStore,
                 burstCleared, burstPayload>>

resolverVars == <<found>>

storageVars == <<now, groupsFile, historyFile, loaded>>

registryVars == <<groupsCache, call>>

queueVars == <<metadataQueue, isProcessingQueue, runs, timers, pushed, fetched,
               failures, lastFetch, enqueued>>

\* The subsystems that follow the groups registry.
startupVars == <<startup>>

historyVars == <<history, historyIndex, historyFileG2, cleaned>>

suggestVars == <<suggested>>

renameVars == <<inbound>>

\* The variables of the scenarios that follow the suggestions.
assistantVars == <<pa, sent>>

saveVars == <<storageCall>>

upsertVars == <<upsert>>

commandVars == <<cmd>>

inFlightVars == <<saves>>

moreVars == <<renameVars, assistantVars, saveVars, upsertVars, commandVars, inFlightVars>>

restVars == <<queueVars, startupVars, historyVars, suggestVars, moreVars>>

vars == <<contactVars, resolverVars, storageVars, registryVars, restVars>>

\* What the handlers of the contact directory leave alone.
outsideContacts == <<resolverVars, storageVars, registryVars, restVars>>

\* What a name resolution leaves alone.
outsideResolver == <<saveTimeout, pendingSaves, primaryFile, backupFile,
                     flushLog, sinceCall, sinceSched, burstCalls, burstSaves, burstStore,
                     burstCleared, burstPayload, storageVars, registryVars, restVars>>

\* What a direct load of a snapshot leaves alone.
outsideStorage == <<contactVars, resolverVars, registryVars, restVars>>

\* What getAllGroups leaves alone, besides the snapshot stores.
outsideRegistry == <<contactVars, resolverVars, restVars>>

\* What the metadata queue leaves alone.
outsideQueue == <<contactVars, resolverVars, storageVars, call, startupVars, historyVars,
                  suggestVars, moreVars>>

-----------------------------------------------------------------------------
(* JavaScript values: a string is the sequence of its characters.          *)

Undefined == [t |-> "undefined", s |-> <<>>]

Str(chars) == [t |-> "string", s |-> chars]

\* JS truthiness of a string-or-undefined value: '' and undefined are falsy.
Truthy(v) == v.t = "string" /\ v.s # <<>>

\* a || b
Or(a, b) == IF Truthy(a) THEN a ELSE b

Min(a, b) == IF a < b THEN a ELSE b

-----------------------------------------------------------------------------
(* Identifiers.  A jid is <user>@<server>; jid.split('@')[0] is the user.  *)

Jid(user, server) == [user |-> user, server |-> server]

J1   == Jid(<<"1", "5">>, "s.whatsapp.net")
J2   == Jid(<<"2", "7">>, "s.whatsapp.net")
JLid == Jid(<<"9", "9">>, "lid")
JGroup == Jid(<<"4", "0">>, "g.us")

\* jid.split('@')[0]
UserPart(jid) == Str(jid.user)

\* jid.endsWith('@s.whatsapp.net')
IsIndividual(jid) == jid.server = "s.whatsapp.net"

\* jid.endsWith('@g.us')
IsGroupJid(jid) == jid.server = "g.us"

\* jid.includes('@s.whatsapp.net') || jid.includes('@g.us')
IsStorable(jid) == jid.server \in {"s.whatsapp.net", "g.us"}

-----------------------------------------------------------------------------
(* ContactInfo objects.  keys is the set of own properties; a property     *)
(* that is present may still hold undefined ({ name: undefined }).         *)

Fields == {"name", "notify", "pushName"}

Info(keys, name, notify, pushName) ==
    [keys |-> keys,
     name |-> IF "name" \in keys THEN name ELSE Undefined,
     notify |-> IF "notify" \in keys THEN notify ELSE Undefined,
     pushName |-> IF "pushName" \in keys THEN pushName ELSE Undefined]

\* { ...a, ...b }: every own property of b, undefined ones included, replaces a's.
Spread(a, b) ==
    [keys |-> a.keys \cup b.keys,
     name |-> IF "name" \in b.keys THEN b.name ELSE a.name,
     notify |-> IF "notify" \in b.keys THEN b.notify ELSE a.notify,
     pushName |-> IF "pushName" \in b.keys THEN b.pushName ELSE a.pushName]

EmptyInfo == Info({}, Undefined, Undefined, Undefined)

\* The store is a JS object with string keys: Object.entries is insertion order.
HasKey(store, jid) == \E i \in 1..Len(store) : store[i].jid = jid

IndexOf(store, jid) == CHOOSE i \in 1..Len(store) : store[i].jid = jid

\* contactStore[jid]
Lookup(store, jid) == store[IndexOf(store, jid)].rec

\* contactStore[jid] = rec
Assign(store, jid, rec) ==
    IF HasKey(store, jid)
    THEN [store EXCEPT ![IndexOf(store, jid)] = [jid |-> jid, rec |-> rec]]
    ELSE Append(store, [jid |-> jid, rec |-> rec])

-----------------------------------------------------------------------------
(* Files.  JSON.stringify drops the properties whose value is undefined.   *)

Missing == [kind |-> "missing", body |-> <<>>]
Corrupt == [kind |-> "corrupt", body |-> <<>>]

StringifyRec(rec) ==
    LET kept == {f \in rec.keys : rec[f].t # "undefined"}
    IN  Info(kept, rec.name, rec.notify, rec.pushName)

\* JSON.stringify(contacts, null, 2)
Stringify(store) ==
    [kind |-> "json",
     body |-> [i \in 1..Len(store) |-> [jid |-> store[i].jid, rec |-> StringifyRec(store[i].rec)]]]

-----------------------------------------------------------------------------
(* Time.  The quiet period of debouncedSaveContacts is DebounceMs; the     *)
(* model's clock ticks QuietTicks times per quiet period.  A due timer     *)
(* runs before anything else (Node runs the timers phase first), so a      *)
(* timer callback runs exactly when its delay has passed.                  *)

DebounceMs == 5000

QuietTicks == 2

MaxBurst == 2

RemoveLast(seq) == SubSeq(seq, 1, Len(seq) - 1)

\* What a handler works on: the module state of contactStore.ts, and whether
\* the handler called addContactToStore (on a storable jid) or
\* debouncedSaveContacts.
Memory == [store |-> contactStore, saveTimeout |-> saveTimeout,
           pendingSaves |-> pendingSaves, called |-> FALSE, sched |-> FALSE]

debouncedSaveContactsNoClear(m) ==
    [m EXCEPT !.saveTimeout = TRUE,
              !.pendingSaves = Append(m.pendingSaves, QuietTicks),
              !.sched = TRUE]

debouncedSaveContacts(m) ==
    LET cleared == IF m.saveTimeout THEN RemoveLast(m.pendingSaves) ELSE m.pendingSaves
    IN  [m EXCEPT !.saveTimeout = TRUE,
                  !.pendingSaves = Append(cleared, QuietTicks),
                  !.sched = TRUE]

hasNewInfo(store, jid, info) ==
    \/ ~HasKey(store, jid)
    \/ info.name # Lookup(store, jid).name
    \/ info.notify # Lookup(store, jid).notify
    \/ info.pushName # Lookup(store, jid).pushName

\* an addContactToStore without the test of the jid
addContactToStoreAnyJid(m, jid, info) ==
    LET existing == IF HasKey(m.store, jid) THEN Lookup(m.store, jid) ELSE EmptyInfo
        m1 == [m EXCEPT !.store = Assign(m.store, jid, Spread(existing, info)),
                        !.called = TRUE]
    IN  IF hasNewInfo(m.store, jid, info) THEN debouncedSaveContacts(m1) ELSE m1

addContactToStore(m, jid, info) ==
    IF IsStorable(jid)
    THEN LET existing == IF HasKey(m.store, jid) THEN Lookup(m.store, jid) ELSE EmptyInfo
             m1 == [m EXCEPT !.store = Assign(m.store, jid, Spread(existing, info)),
                             !.called = TRUE]
         IN  IF hasNewInfo(m.store, jid, info) THEN debouncedSaveContacts(m1) ELSE m1
    ELSE m

\* updateContactStore for an object with the single key jid
updateContactStore(m, jid, info) == addContactToStore(m, jid, info)

-----------------------------------------------------------------------------
(* savePersistedContacts.  The file system decides how far a run gets:     *)
(*   ok                 both the copy and the write succeed                *)
(*   failsBeforeWrite   ensureDataDirectory or copyFileSync throws         *)
(*   writeFailsClean    writeFileSync throws before it touches the file    *)
(*   writeFailsPartial  writeFileSync throws after truncating the file     *)

SaveOutcomes == {"ok", "failsBeforeWrite", "writeFailsClean", "writeFailsPartial"}

Files == [primary |-> primaryFile, backup |-> backupFile, log |-> "none"]

savePersistedContactsWriteFirst(f, contacts, io) ==
    IF io = "failsBeforeWrite"
    THEN [f EXCEPT !.log = "failed"]
    ELSE LET written == IF io = "ok" THEN Stringify(contacts)
                        ELSE IF io = "writeFailsPartial" THEN Corrupt ELSE f.primary
         IN  [primary |-> written,
              backup |-> IF f.primary.kind # "missing" THEN written ELSE f.backup,
              log |-> IF io = "ok" THEN "ok" ELSE "failed"]

savePersistedContacts(f, contacts, io) ==
    IF io = "failsBeforeWrite"
    THEN [f EXCEPT !.log = "failed"]
    ELSE LET copied == IF f.primary.kind # "missing" THEN f.primary ELSE f.backup
         IN  CASE io = "ok" ->
                    [primary |-> Stringify(contacts), backup |-> copied, log |-> "ok"]
               [] io = "writeFailsClean" ->
                    [primary |-> f.primary, backup |-> copied, log |-> "failed"]
               [] OTHER ->
                    [primary |-> Corrupt, backup |-> copied, log |-> "failed"]

-----------------------------------------------------------------------------
(* extractContactFromMessage.  A message is its key (remoteJid,            *)
(* participant, fromMe) and its pushName.                                  *)

NoJid == Jid(<<>>, "")

Message(remoteJid, participant, fromMe, pushName) ==
    [remoteJid |-> remoteJid, participant |-> participant,
     fromMe |-> fromMe, pushName |-> pushName]

\* existingContact?.name and existingContact?.pushName
ExistingField(store, jid, f) == IF HasKey(store, jid) THEN Lookup(store, jid)[f] ELSE Undefined

\* existingContact?.name || pushName: a stored name wins over the message's
ExtractedInfoKeepsName(store, who, pushName) ==
    LET bestName == Or(Or(ExistingField(store, who, "name"), pushName),
                       ExistingField(store, who, "pushName"))
    IN  Info(Fields,
             IF Truthy(bestName) THEN bestName ELSE Undefined,
             Or(bestName, UserPart(who)),
             Or(pushName, Undefined))

\* The object literal both branches build for the sender `who`.
ExtractedInfo(store, who, pushName) ==
    LET bestName == Or(Or(pushName, ExistingField(store, who, "name")),
                       ExistingField(store, who, "pushName"))
    IN  Info(Fields,
             IF Truthy(bestName) THEN bestName ELSE Undefined,
             Or(bestName, UserPart(who)),
             Or(pushName, Undefined))

extractContactFromMessage(m, msg) ==
    IF msg.remoteJid # NoJid /\ ~msg.fromMe
    THEN LET jid == msg.remoteJid
             m1 == IF IsIndividual(jid)
                   THEN addContactToStore(m, jid, ExtractedInfo(m.store, jid, msg.pushName))
                   ELSE m
         IN  IF IsGroupJid(jid) /\ msg.participant # NoJid
             THEN addContactToStore(m1, msg.participant,
                                    ExtractedInfo(m1.store, msg.participant, msg.pushName))
             ELSE m1
    ELSE m

\* The 'append' branch of the messages.upsert handler, for one message.
HistoricalMessage(m, msg) ==
    LET m1 == extractContactFromMessage(m, msg)
        jid == msg.remoteJid
    IN  IF Truthy(msg.pushName) /\ jid # NoJid /\ IsIndividual(jid)
           /\ (~Truthy(ExistingField(m1.store, jid, "name"))
                \/ ExistingField(m1.store, jid, "name") = UserPart(jid))
        THEN addContactToStore(m1, jid, Info(Fields, msg.pushName, msg.pushName, msg.pushName))
        ELSE m1

\* The object the contacts.upsert and contacts.update handlers build for one contact.
UpsertInfo(contact) ==
    LET contactName == Or(contact.name, contact.notify)
    IN  Info({"name", "notify"},
             Or(contactName, Undefined),
             Or(Or(contact.notify, contactName), UserPart(contact.id)),
             Undefined)

-----------------------------------------------------------------------------
(* The contact directory: events, timers and the clock.                    *)

Al == <<"A", "l">>
Bo == <<"B", "o">>

PushNames == {Undefined, Str(Al)}

\* Direct messages of J1 and of an @lid sender, group messages of participant J1.
Messages ==
    {Message(J1, NoJid, fm, pn) : fm \in BOOLEAN, pn \in PushNames}
    \cup {Message(JGroup, J1, FALSE, Str(Al))}
    \cup {Message(JLid, NoJid, FALSE, Str(Al))}

Contacts ==
    [id : {J1, JLid}, name : {Undefined, Str(Bo)}, notify : {Undefined, Str(Bo)}]

NoTimerDue == \A i \in 1..Len(pendingSaves) : pendingSaves[i] > 0

\* The state a handler leaves behind: m is the module state of contactStore.ts,
\* f the two files, cleared says that the handler was clearAllContacts.
CommitContacts(m, f, cleared) ==
    LET newBurst == m.sched /\ (burstCalls = 0 \/ sinceSched >= QuietTicks)
    IN  /\ contactStore' = m.store
        /\ saveTimeout' = m.saveTimeout
        /\ pendingSaves' = m.pendingSaves
        /\ primaryFile' = f.primary
        /\ backupFile' = f.backup
        /\ flushLog' = f.log
        /\ sinceCall' = IF m.called THEN 0 ELSE sinceCall
        /\ sinceSched' = IF m.sched THEN 0 ELSE sinceSched
        /\ burstCalls' = IF newBurst THEN 1
                         ELSE IF m.sched THEN Min(burstCalls + 1, MaxBurst) ELSE burstCalls
        /\ burstSaves' = IF newBurst THEN 0 ELSE burstSaves
        /\ burstStore' = IF m.sched THEN Stringify(m.store) ELSE burstStore
        /\ burstCleared' = IF newBurst THEN FALSE ELSE (burstCleared \/ cleared)
        /\ burstPayload' = IF newBurst THEN Missing ELSE burstPayload

Commit(m, f, cleared) ==
    /\ CommitContacts(m, f, cleared)
    /\ UNCHANGED outsideContacts

\* messages.upsert with one message: every message goes through
\* extractContactFromMessage; an 'append' batch also takes names from history.
MessagesUpsert(type, msg) ==
    /\ NoTimerDue
    /\ Commit(IF type = "append" THEN HistoricalMessage(Memory, msg)
                                  ELSE extractContactFromMessage(Memory, msg),
              Files, FALSE)

\* contacts.upsert / contacts.update with one contact (the two handlers are the same code)
ContactsUpsert(contact) ==
    /\ NoTimerDue
    /\ Commit(updateContactStore(Memory, contact.id, UpsertInfo(contact)), Files, FALSE)

\* saveContactsNow: the save after the initial sync, the 30-minute save, or a manual one
SaveContactsNow(io) ==
    /\ NoTimerDue
    /\ Commit(Memory, savePersistedContacts(Files, contactStore, io), FALSE)

clearAllContacts(io) ==
    /\ NoTimerDue
    /\ Commit([Memory EXCEPT !.store = <<>>], savePersistedContacts(Files, <<>>, io), TRUE)

\* The callback debouncedSaveContacts gave to setTimeout
DebounceTimerFires(io) ==
    /\ pendingSaves # <<>>
    /\ pendingSaves[1] = 0
    /\ LET f == savePersistedContacts(Files, contactStore, io)
       IN  /\ primaryFile' = f.primary
           /\ backupFile' = f.backup
           /\ flushLog' = f.log
    /\ saveTimeout' = FALSE
    /\ pendingSaves' = Tail(pendingSaves)
    /\ burstSaves' = Min(burstSaves + 1, 2)
    /\ burstPayload' = Stringify(contactStore)
    /\ UNCHANGED <<contactStore, sinceCall, sinceSched, burstCalls, burstStore, burstCleared>>
    /\ UNCHANGED outsideContacts

Tick ==
    /\ NoTimerDue
    /\ pendingSaves' = [i \in 1..Len(pendingSaves) |-> pendingSaves[i] - 1]
    /\ sinceCall' = Min(sinceCall + 1, QuietTicks)
    /\ sinceSched' = Min(sinceSched + 1, QuietTicks)
    /\ flushLog' = "none"
    /\ UNCHANGED <<contactStore, saveTimeout, primaryFile, backupFile,
                   burstCalls, burstSaves, burstStore, burstCleared, burstPayload>>
    /\ UNCHANGED outsideContacts

\* No timer, no files, no call yet.
ContactsIdle ==
    /\ saveTimeout = FALSE
    /\ pendingSaves = <<>>
    /\ primaryFile = Missing
    /\ backupFile = Missing
    /\ flushLog = "none"
    /\ sinceCall = QuietTicks
    /\ sinceSched = QuietTicks
    /\ burstCalls = 0
    /\ burstSaves = 0
    /\ burstStore = Stringify(<<>>)
    /\ burstCleared = FALSE
    /\ burstPayload = Missing

ContactsInit ==
    /\ contactStore = <<>>
    /\ ContactsIdle

ContactsNext ==
    \/ \E type \in {"notify", "append"}, msg \in Messages : MessagesUpsert(type, msg)
    \/ \E contact \in Contacts : ContactsUpsert(contact)
    \/ \E io \in SaveOutcomes : SaveContactsNow(io)
    \/ \E io \in SaveOutcomes : clearAllContacts(io)
    \/ \E io \in SaveOutcomes : DebounceTimerFires(io)
    \/ Tick

-----------------------------------------------------------------------------
(* Claims about the contact directory.                                     *)

\* C1: addContactToStore merges: a name field for which the new info has no
\* value, or an undefined one, keeps its previous value, so no handler that
\* leaves a record in the store turns one of its stored names into undefined.
C1_MergeKeepsStoredNames ==
    [][\A i \in 1..Len(contactStore) :
          HasKey(contactStore', contactStore[i].jid) =>
             \A f \in Fields :
                contactStore[i].rec[f].t = "string" =>
                   Lookup(contactStore', contactStore[i].jid)[f].t = "string"]_vars

\* C2 as stated: every addContactToStore call (on a storable jid) restarts the
\* timer, so that within the quiet period after any call exactly one timer is
\* pending and it is due one quiet period after that call.
C2_EveryCallRestartsTimer ==
    sinceCall < QuietTicks => pendingSaves = <<QuietTicks - sinceCall>>

\* C2 as amended: for a burst of calls that each carry new information
\* (hasNewInfo) exactly one debounced savePersistedContacts run results: no run
\* before the quiet period after the last such call has passed, one timer
\* pending until then, one run when it has passed, asked to write the store as
\* it was after the last call (unless clearAllContacts emptied it meanwhile).
C2_OneSavePerBurst ==
    burstCalls > 0 =>
       /\ sinceSched < QuietTicks =>
             (pendingSaves = <<QuietTicks - sinceSched>> /\ burstSaves = 0)
       /\ sinceSched = QuietTicks =>
             \/ pendingSaves = <<0>> /\ burstSaves = 0
             \/ /\ pendingSaves = <<>>
                /\ burstSaves = 1
                /\ (~burstCleared => burstPayload = burstStore)

\* A burst of at least two scheduling calls ended in one run that wrote the
\* store of the last call.
C2_Witness ==
    /\ burstCalls >= 2
    /\ burstSaves = 1
    /\ ~burstCleared
    /\ burstStore.body # <<>>
    /\ burstPayload = burstStore
    /\ primaryFile = burstPayload

\* C3: a savePersistedContacts run that succeeds while the primary file
\* exists leaves in the backup file what the primary file held before the run.
C3_BackupIsPreviousPrimary ==
    [][(flushLog' = "ok" /\ primaryFile.kind # "missing") => backupFile' = primaryFile]_vars

\* A run succeeded over an existing primary file and changed its content.
C3_Witness ==
    /\ flushLog = "ok"
    /\ backupFile.kind = "json"
    /\ backupFile.body # <<>>
    /\ primaryFile # backupFile

-----------------------------------------------------------------------------
(* Strings, for findContactByName.                                         *)

\* String.prototype.toLowerCase, on the characters the model uses
UpperCase == <<"A", "B", "C", "D", "E", "F", "G", "H", "I", "J", "K", "L", "M",
               "N", "O", "P", "Q", "R", "S", "T", "U", "V", "W", "X", "Y", "Z">>

LowerCase == <<"a", "b", "c", "d", "e", "f", "g", "h", "i", "j", "k", "l", "m",
               "n", "o", "p", "q", "r", "s", "t", "u", "v", "w", "x", "y", "z">>

LowerChar(c) ==
    IF \E k \in 1..Len(UpperCase) : UpperCase[k] = c
    THEN LowerCase[CHOOSE k \in 1..Len(UpperCase) : UpperCase[k] = c]
    ELSE c

toLowerCase(s) == [i \in 1..Len(s) |-> LowerChar(s[i])]

\* haystack.includes(needle)
includes(haystack, needle) ==
    \E i \in 0..(Len(haystack) - Len(needle)) :
        SubSeq(haystack, i + 1, i + Len(needle)) = needle

\* s.split(' '): the pieces between the spaces, empty pieces included
RECURSIVE SplitFrom(_, _, _)
SplitFrom(s, i, piece) ==
    IF i > Len(s) THEN <<piece>>
    ELSE IF s[i] = " " THEN <<piece>> \o SplitFrom(s, i + 1, <<>>)
    ELSE SplitFrom(s, i + 1, Append(piece, s[i]))

split(s) == SplitFrom(s, 1, <<>>)

Digits == {"0", "1", "2", "3", "4", "5", "6", "7", "8", "9"}

\* s.replace(/\s|-/g, '') and s.replace(/\+|\s|-/g, '')
RECURSIVE Strip(_, _)
Strip(s, chars) ==
    IF s = <<>> THEN <<>>
    ELSE IF Head(s) \in chars THEN Strip(Tail(s), chars)
    ELSE <<Head(s)>> \o Strip(Tail(s), chars)

\* /^\+?\d+$/.test(s)
IsPhoneNumber(s) ==
    LET digits == IF s # <<>> /\ Head(s) = "+" THEN Tail(s) ELSE s
    IN  digits # <<>> /\ \A i \in 1..Len(digits) : digits[i] \in Digits

-----------------------------------------------------------------------------
(* findContactByName.                                                      *)

Null == Jid(<<>>, "null")

\* (contact.name || contact.notify || contact.pushName || '').toLowerCase()
contactName(rec) ==
    toLowerCase(Or(Or(Or(rec.name, rec.notify), rec.pushName), Str(<<>>)).s)

\* The test of the first loop
SubstringMatch(rec, name) ==
    \/ includes(contactName(rec), toLowerCase(name))
    \/ includes(toLowerCase(name), contactName(rec))

\* The test of the second loop
TokenMatch(rec, name) ==
    LET nameParts == split(contactName(rec))
        searchParts == split(toLowerCase(name))
    IN  \E i \in 1..Len(searchParts), j \in 1..Len(nameParts) :
            Len(searchParts[i]) > 2 /\ includes(nameParts[j], searchParts[i])

\* for (const [jid, contact] of Object.entries(contactStore)) { if (test) return jid }
RECURSIVE FirstMatch(_, _, _, _)
FirstMatch(store, i, name, token) ==
    IF i > Len(store) THEN Null
    ELSE IF (IF token THEN TokenMatch(store[i].rec, name)
                      ELSE SubstringMatch(store[i].rec, name))
         THEN store[i].jid
         ELSE FirstMatch(store, i + 1, name, token)

\* What sock.onWhatsApp can do.
ProbeReplies == {"throws", "undefined", "empty", "notExists", "exists"}

\* cleanNumber + '@s.whatsapp.net'
potentialJid(name) == Jid(Strip(name, {"+", " ", "-"}), "s.whatsapp.net")

\* The last resort: the jid returned, and whether sock.onWhatsApp was called.
PhoneFallbackUnchecked(name, reply) ==
    IF IsPhoneNumber(Strip(name, {" ", "-"}))
    THEN [jid |-> IF reply \in {"exists", "notExists"} THEN potentialJid(name) ELSE Null,
          probed |-> TRUE]
    ELSE [jid |-> Null, probed |-> FALSE]

PhoneFallback(name, reply) ==
    IF IsPhoneNumber(Strip(name, {" ", "-"}))
    THEN [jid |-> IF reply = "exists" THEN potentialJid(name) ELSE Null, probed |-> TRUE]
    ELSE [jid |-> Null, probed |-> FALSE]

\* One loop that tries both tests on each record in turn.
findContactByNameOneLoop(store, name, reply) ==
    LET both == {i \in 1..Len(store) :
                    SubstringMatch(store[i].rec, name) \/ TokenMatch(store[i].rec, name)}
    IN  IF both # {}
        THEN [jid |-> store[CHOOSE i \in both : \A k \in both : i <= k].jid, probed |-> FALSE]
        ELSE PhoneFallback(name, reply)

findContactByName(store, name, reply) ==
    LET bySubstring == FirstMatch(store, 1, name, FALSE)
        byToken == FirstMatch(store, 1, name, TRUE)
    IN  IF bySubstring # Null THEN [jid |-> bySubstring, probed |-> FALSE]
        ELSE IF byToken # Null THEN [jid |-> byToken, probed |-> FALSE]
        ELSE PhoneFallback(name, reply)

-----------------------------------------------------------------------------
(* Name resolution over a directory of at most MaxContacts records.        *)

MaxContacts == 2

NamePool == {<<"A", "l", " ", "B", "o", "b">>, <<"b", "o", "b">>, <<"B", "o", "b", "b", "y">>}

\* Records as the handlers leave them: a named contact, a contact known by
\* its notify or pushName only, one known by its number only, one without names.
RecPool(jid) ==
    {Info({"name"}, Str(n), Undefined, Undefined) : n \in NamePool}
    \cup {Info({"notify"}, Undefined, Str(<<"b", "o", "b">>), Undefined),
          Info({"pushName"}, Undefined, Undefined, Str(Al)),
          Info(Fields, Undefined, UserPart(jid), Undefined),
          EmptyInfo}

Entries == {[jid |-> jid, rec |-> rec] : jid \in {J1}, rec \in RecPool(J1)}
           \cup {[jid |-> jid, rec |-> rec] : jid \in {J2}, rec \in RecPool(J2)}

StorePool ==
    {store \in UNION {[1..n -> Entries] : n \in 0..MaxContacts} :
        \A i, k \in 1..Len(store) : i # k => store[i].jid # store[k].jid}

Queries ==
    {<<"B", "o", "b", " ", "x">>, <<"B", "O", "B">>, <<"a", "l">>, <<"z", "o", "e">>,
     <<"1", "5">>, <<"+", "2", " ", "7">>, <<"3", "-", "1">>, <<"3", "+", "1">>, <<>>}

NotAsked == [name |-> <<>>, reply |-> "none", jid |-> Null, probed |-> FALSE]

\* await findContactByName(sock, name): the directory is read before the
\* only await (the probe), whose reply the transport decides.
FindContactByName(name, reply) ==
    /\ LET r == findContactByName(contactStore, name, reply)
       IN  found' = [name |-> name, reply |-> reply, jid |-> r.jid, probed |-> r.probed]
    /\ UNCHANGED contactStore
    /\ UNCHANGED outsideResolver

ResolverIdle == found = NotAsked

\* The directory as some earlier run of the handlers left it.
ResolverInit ==
    /\ contactStore \in StorePool
    /\ ContactsIdle
    /\ ResolverIdle

ResolverNext == \E name \in Queries, reply \in ProbeReplies : FindContactByName(name, reply)

-----------------------------------------------------------------------------
(* Claims about findContactByName.                                         *)

SubstringMatches == {i \in 1..Len(contactStore) : SubstringMatch(contactStore[i].rec, found.name)}

TokenMatches == {i \in 1..Len(contactStore) : TokenMatch(contactStore[i].rec, found.name)}

\* The query is all digits once '+', spaces and hyphens are stripped.
AllDigits(name) ==
    LET d == Strip(name, {"+", " ", "-"})
    IN  d # <<>> /\ \A i \in 1..Len(d) : d[i] \in Digits

\* C5: whenever some record passes the substring test, findContactByName
\* returns the first such record in insertion order, whatever records match
\* by token overlap.
C5_FirstSubstringMatchWins ==
    (found.reply # "none" /\ SubstringMatches # {}) =>
        /\ found.jid = contactStore[CHOOSE i \in SubstringMatches :
                                        \A k \in SubstringMatches : i <= k].jid
        /\ ~found.probed

\* The first record matches by token overlap only, the second by substring,
\* and the second was returned.
C5_Witness ==
    /\ found.reply # "none"
    /\ Len(contactStore) = 2
    /\ 1 \in TokenMatches
    /\ SubstringMatches = {2}
    /\ contactName(contactStore[2].rec) # <<>>
    /\ found.jid = contactStore[2].jid

\* C6: with no record matching, an identifier is returned only for an
\* all-digit query whose existence probe confirmed it; any other reply of the
\* probe gives null; a query that is not all digits is never probed.
C6_PhoneFallbackNeedsProbe ==
    (found.reply # "none" /\ SubstringMatches = {} /\ TokenMatches = {}) =>
        /\ found.jid # Null =>
               (found.probed /\ found.reply = "exists" /\ AllDigits(found.name))
        /\ found.reply # "exists" => found.jid = Null
        /\ ~AllDigits(found.name) => ~found.probed

\* An all-digit query was probed, the probe said not-exists, the result is null.
C6_Witness ==
    /\ found.probed
    /\ found.reply = "notExists"
    /\ AllDigits(found.name)
    /\ found.jid = Null

\* A record whose name, notify and pushName are all unset or empty
Nameless(rec) == ~Truthy(rec.name) /\ ~Truthy(rec.notify) /\ ~Truthy(rec.pushName)

\* The two tests of findContactByName on a given lower-cased name
MatchesName(bestName, name) ==
    \/ includes(bestName, toLowerCase(name))
    \/ includes(toLowerCase(name), bestName)
    \/ \E i \in 1..Len(split(toLowerCase(name))), j \in 1..Len(split(bestName)) :
           Len(split(toLowerCase(name))[i]) > 2
              /\ includes(split(bestName)[j], split(toLowerCase(name))[i])

\* C21: when findContactByName returns a record of the store whose name,
\* notify and pushName are all unset, the query matches the value derived
\* from the record's identifier (the user part of its jid): such a record
\* is not returned for a query unrelated to its identifier.
C21_NamelessMatchesByIdentifier ==
    (found.reply # "none" /\ ~found.probed /\ found.jid # Null
        /\ Nameless(Lookup(contactStore, found.jid)))
      => MatchesName(toLowerCase(found.jid.user), found.name)

-----------------------------------------------------------------------------
(* The TTL snapshot stores.  A snapshot file is missing, unparsable, or    *)
(* the envelope that saveGroups / saveGroupHistory wrote.                  *)

MsPerHour == 3600000

\* new GroupsStorage('groups_cache.json', 24)
cacheExpiryHours == 24

CACHE_DURATION_HOURS == 6

G1 == JGroup
G2 == Jid(<<"4", "1">>, "g.us")

GroupInfo(jid, name, participantCount) ==
    [jid |-> jid, name |-> name, description |-> Undefined,
     participantCount |-> participantCount]

GroupsData(lastUpdated, groups) ==
    [kind |-> "json", lastUpdated |-> lastUpdated, groups |-> groups, version |-> "1.0"]

GroupsMissing == [kind |-> "missing", lastUpdated |-> 0, groups |-> <<>>, version |-> ""]
GroupsCorrupt == [kind |-> "corrupt", lastUpdated |-> 0, groups |-> <<>>, version |-> ""]

GroupHistoryData(fetchedAt, messages) ==
    [kind |-> "json", groupJid |-> JGroup, fetchedAt |-> fetchedAt,
     messages |-> messages, messageCount |-> Len(messages)]

HistoryMissing == [kind |-> "missing", groupJid |-> NoJid, fetchedAt |-> 0,
                   messages |-> <<>>, messageCount |-> 0]
HistoryCorrupt == [kind |-> "corrupt", groupJid |-> NoJid, fetchedAt |-> 0,
                   messages |-> <<>>, messageCount |-> 0]

\* What fs.readFile can do with a file that exists.
ReadOutcomes == {"ok", "fails"}

\* The expiry test of both loaders: ageHours = ageMs / (1000 * 60 * 60), then
\* ageHours > hours.  The division is exact enough to keep the order.
Expired(ageMs, hours) == ageMs > hours * MsPerHour

loadGroupsExpiresAtTtl(file, time, io) ==
    IF io = "fails" \/ file.kind # "json" THEN <<>>
    ELSE IF time - file.lastUpdated >= cacheExpiryHours * MsPerHour THEN <<>>
    ELSE file.groups

\* a loadGroups without the age test
loadGroupsIgnoresExpiry(file, time, io) ==
    IF io = "fails" \/ file.kind # "json" THEN <<>>
    ELSE file.groups

\* GroupsStorage.loadGroups
loadGroups(file, time, io) ==
    IF io = "fails" \/ file.kind # "json" THEN <<>>
    ELSE IF Expired(time - file.lastUpdated, cacheExpiryHours) THEN <<>>
    ELSE file.groups

\* An error that leaves a loader instead of being caught in it
HistoryRaised == [HistoryMissing EXCEPT !.kind = "raised"]

loadGroupHistoryNoCatch(file, time, io) ==
    IF io = "fails" \/ file.kind # "json" THEN HistoryRaised
    ELSE IF Expired(time - file.fetchedAt, CACHE_DURATION_HOURS) THEN HistoryMissing
    ELSE file

\* loadGroupHistory: null is HistoryMissing
loadGroupHistory(file, time, io) ==
    IF io = "fails" \/ file.kind # "json" THEN HistoryMissing
    ELSE IF Expired(time - file.fetchedAt, CACHE_DURATION_HOURS) THEN HistoryMissing
    ELSE file

-----------------------------------------------------------------------------
(* Direct loads at snapshot ages around the two expiry times.              *)

FamGroup(n) == GroupInfo(G1, Str(<<"F", "a", "m">>), n)
UnknownGroup == GroupInfo(G2, Str(<<"U", "n", "k", "n", "o", "w", "n", " ", "G", "r", "o", "u", "p">>), 3)

GroupLists == {<<>>, <<FamGroup(10)>>, <<FamGroup(12), UnknownGroup>>}

MessageLists == {<<>>, <<"m1">>, <<"m1", "m2">>}

Ages(hours) ==
    {0, hours * MsPerHour - 1000, hours * MsPerHour - 1, hours * MsPerHour,
     hours * MsPerHour + 1, hours * MsPerHour + 1000}

\* Some time after the oldest snapshot was written.
Epoch == 2 * cacheExpiryHours * MsPerHour

NotLoaded == [store |-> "none", io |-> "ok", age |-> 0, groups |-> <<>>,
              history |-> HistoryMissing]

\* await groupsStorage.loadGroups()
LoadGroups(io) ==
    /\ loaded' = [store |-> "groups", io |-> io, age |-> now - groupsFile.lastUpdated,
                  groups |-> loadGroups(groupsFile, now, io), history |-> HistoryMissing]
    /\ UNCHANGED <<now, groupsFile, historyFile>>
    /\ UNCHANGED outsideStorage

\* await loadGroupHistory(JGroup)
LoadGroupHistory(io) ==
    /\ loaded' = [store |-> "history", io |-> io, age |-> now - historyFile.fetchedAt,
                  groups |-> <<>>, history |-> loadGroupHistory(historyFile, now, io)]
    /\ UNCHANGED <<now, groupsFile, historyFile>>
    /\ UNCHANGED outsideStorage

StorageIdle ==
    /\ now = 0
    /\ groupsFile = GroupsMissing
    /\ historyFile = HistoryMissing
    /\ loaded = NotLoaded

\* The files as earlier runs left them.
TtlInit ==
    /\ now = Epoch
    /\ groupsFile \in {GroupsMissing, GroupsCorrupt}
                      \cup {GroupsData(Epoch - a, g) : a \in Ages(cacheExpiryHours), g \in GroupLists}
    /\ historyFile \in {HistoryMissing, HistoryCorrupt}
                       \cup {GroupHistoryData(Epoch - a, m) :
                                a \in Ages(CACHE_DURATION_HOURS), m \in MessageLists}
    /\ loaded = NotLoaded

TtlNext ==
    \/ \E io \in ReadOutcomes : LoadGroups(io)
    \/ \E io \in ReadOutcomes : LoadGroupHistory(io)

-----------------------------------------------------------------------------
(* Claims about the expiry of snapshots.                                   *)

\* The last direct load read a well-formed snapshot.
LoadedSnapshot ==
    /\ loaded.io = "ok"
    /\ \/ loaded.store = "groups" /\ groupsFile.kind = "json"
       \/ loaded.store = "history" /\ historyFile.kind = "json"

TtlMs == IF loaded.store = "groups" THEN cacheExpiryHours * MsPerHour
                                    ELSE CACHE_DURATION_HOURS * MsPerHour

LoadHit ==
    \/ loaded.store = "groups" /\ loaded.groups = groupsFile.groups
    \/ loaded.store = "history" /\ loaded.history = historyFile

LoadMiss ==
    \/ loaded.store = "groups" /\ loaded.groups = <<>>
    \/ loaded.store = "history" /\ loaded.history = HistoryMissing

\* C4 as stated: a load returns the snapshot when its age is below the TTL
\* and a miss when its age is the TTL or more.
C4_MissAtTtl ==
    LoadedSnapshot =>
        /\ loaded.age < TtlMs => LoadHit
        /\ loaded.age >= TtlMs => LoadMiss

\* C4 as amended: a load returns the snapshot when its age is at most the
\* TTL (24 h for groups, 6 h for history) and a miss when its age is above it.
C4_MissPastTtl ==
    LoadedSnapshot =>
        /\ loaded.age <= TtlMs => LoadHit
        /\ loaded.age > TtlMs => LoadMiss

\* A non-empty snapshot whose age is exactly the TTL was returned.
C4_Witness ==
    /\ LoadedSnapshot
    /\ loaded.age = TtlMs
    /\ LoadHit
    /\ ~LoadMiss

-----------------------------------------------------------------------------
(* Snapshots of another format version.                                    *)

\* The version field of the envelope: the one saveGroups writes, and a later one.
Versions == {"1.0", "2.0"}

\* The snapshot files that some build of the program left, of any age.
VersionInit ==
    /\ now = Epoch
    /\ groupsFile \in {[GroupsData(Epoch - a, g) EXCEPT !.version = v] :
                           a \in Ages(cacheExpiryHours), g \in GroupLists, v \in Versions}
    /\ historyFile = HistoryMissing
    /\ loaded = NotLoaded

VersionNext == \E io \in ReadOutcomes : LoadGroups(io)

\* C28: loadGroups answers a snapshot whose version field is not '1.0'
\* with the empty list.
C28_UnknownVersionIsMiss ==
    (loaded.store = "groups" /\ groupsFile.version # "1.0") => loaded.groups = <<>>

-----------------------------------------------------------------------------
(* The groups registry: getAllGroups, one step per await.                  *)

MaxDays == 1

\* What sock.groupFetchAllParticipating answers: the groups of the account,
\* in the order of Object.entries, or an error with its message.
LiveGroup(jid, subject, participants) ==
    [jid |-> jid, subject |-> subject, desc |-> Undefined, participants |-> participants]

LiveFam(n) == LiveGroup(G1, Str(<<"F", "a", "m">>), n)
LiveUnnamed == LiveGroup(G2, Str(<<>>), 3)

LiveLists == {<<>>, <<LiveFam(10)>>, <<LiveFam(12)>>, <<LiveFam(10), LiveUnnamed>>, <<LiveUnnamed>>}

FetchErrors == {"rate-overlimit", "timed out"}

FetchReplies == [error : {"none"}, groups : LiveLists]
                \cup [error : FetchErrors, groups : {<<>>}]

\* What fs.writeFile can do.
WriteOutcomes == {"ok", "failsClean", "failsPartial"}

\* The GroupInfo getAllGroups builds from one entry of the answer
GroupInfoOf(data) ==
    [jid |-> data.jid,
     name |-> Or(data.subject, UnknownGroup.name),
     description |-> data.desc,
     participantCount |-> data.participants]

GroupInfosOf(list) == [i \in 1..Len(list) |-> GroupInfoOf(list[i])]

\* groupsCache.set(group.jid, group): a Map keeps the position of a known key
CacheSet(cache, group) ==
    IF \E i \in 1..Len(cache) : cache[i].jid = group.jid
    THEN [i \in 1..Len(cache) |-> IF cache[i].jid = group.jid THEN group ELSE cache[i]]
    ELSE Append(cache, group)

RECURSIVE CacheSetAll(_, _)
CacheSetAll(cache, list) ==
    IF list = <<>> THEN cache
    ELSE CacheSetAll(CacheSet(cache, Head(list)), Tail(list))

\* GroupsStorage.saveGroups
saveGroups(file, groups, time, io) ==
    CASE io = "ok" -> GroupsData(time, groups)
      [] io = "failsPartial" -> GroupsCorrupt
      [] OTHER -> file

\* currentGroups.length instead of Object.keys(currentGroups).length
checkIfGroupCountChangedAlways(cachedCount, reply) == reply.error = "none"

\* a probe without its catch block: an error counts as a change
checkIfGroupCountChangedOnError(cachedCount, reply) ==
    IF reply.error # "none" THEN TRUE
    ELSE Len(reply.groups) # cachedCount

checkIfGroupCountChanged(cachedCount, reply) ==
    IF reply.error # "none" THEN FALSE
    ELSE Len(reply.groups) # cachedCount

\* error.code instead of error.message
isRateLimitNever(error) == FALSE

\* error.message === 'rate-overlimit'
isRateLimit(error) == error = "rate-overlimit"

NoCall ==
    [pc |-> "idle", force |-> FALSE, cached |-> <<>>, probed |-> -1, seen |-> <<>>,
     groupInfos |-> <<>>, error |-> "none", read |-> "none", wrote |-> FALSE,
     outcome |-> "none", via |-> "none", result |-> <<>>]

Return(c, via, result) ==
    [c EXCEPT !.pc = "idle", !.outcome = "returned", !.via = via, !.result = result]

\* getAllGroups(sock, forceRefresh) is called; one call is in flight at a time.
GetAllGroupsCalled(force) ==
    /\ call.pc = "idle"
    /\ call' = [NoCall EXCEPT !.force = force, !.pc = IF force THEN "fetch" ELSE "load"]
    /\ UNCHANGED <<groupsCache, now, groupsFile, historyFile, loaded>>
    /\ UNCHANGED outsideRegistry

\* const cachedGroups = await groupsStorage.loadGroups()
GagLoad(io) ==
    /\ call.pc = "load"
    /\ LET cachedGroups == loadGroups(groupsFile, now, io)
       IN  call' = [call EXCEPT !.cached = cachedGroups,
                                !.pc = IF Len(cachedGroups) > 0 THEN "probe" ELSE "fetch"]
    /\ UNCHANGED <<groupsCache, now, groupsFile, historyFile, loaded>>
    /\ UNCHANGED outsideRegistry

\* await checkIfGroupCountChanged(sock, cachedGroups.length), then either the
\* return of the cached list or the way on to the full fetch; seen is what the
\* probe's answer says about the groups
GagProbe(reply) ==
    /\ call.pc = "probe"
    /\ LET c == [call EXCEPT !.probed = IF reply.error = "none" THEN Len(reply.groups) ELSE -1,
                             !.seen = GroupInfosOf(reply.groups)]
       IN  IF checkIfGroupCountChanged(Len(call.cached), reply)
           THEN /\ call' = [c EXCEPT !.pc = "fetch"]
                /\ UNCHANGED groupsCache
           ELSE /\ call' = Return(c, "cache", call.cached)
                /\ groupsCache' = CacheSetAll(<<>>, call.cached)
    /\ UNCHANGED <<now, groupsFile, historyFile, loaded>>
    /\ UNCHANGED outsideRegistry

\* const groups = await sock.groupFetchAllParticipating() and the loop that
\* follows it, or the start of the catch block
GagFetch(reply) ==
    /\ call.pc = "fetch"
    /\ IF reply.error = "none"
       THEN /\ call' = [call EXCEPT !.groupInfos = GroupInfosOf(reply.groups), !.pc = "save"]
            /\ groupsCache' = CacheSetAll(groupsCache, GroupInfosOf(reply.groups))
       ELSE /\ call' = IF isRateLimit(reply.error)
                       THEN [call EXCEPT !.error = reply.error, !.pc = "fallback"]
                       ELSE [call EXCEPT !.error = reply.error, !.pc = "idle",
                                         !.outcome = "raised"]
            /\ UNCHANGED groupsCache
    /\ UNCHANGED <<now, groupsFile, historyFile, loaded>>
    /\ UNCHANGED outsideRegistry

\* await groupsStorage.saveGroups(groupInfos); return groupInfos
GagSave(io) ==
    /\ call.pc = "save"
    /\ groupsFile' = saveGroups(groupsFile, call.groupInfos, now, io)
    /\ call' = [Return(call, "refresh", call.groupInfos) EXCEPT !.wrote = (io = "ok")]
    /\ UNCHANGED <<groupsCache, now, historyFile, loaded>>
    /\ UNCHANGED outsideRegistry

\* The rate-limit branch of the catch block
GagFallback(io) ==
    /\ call.pc = "fallback"
    /\ LET cachedGroups == loadGroups(groupsFile, now, io)
       IN  IF Len(cachedGroups) > 0
           THEN /\ groupsCache' = CacheSetAll(groupsCache, cachedGroups)
                /\ call' = Return([call EXCEPT !.read = io], "snapshot", cachedGroups)
           ELSE /\ UNCHANGED groupsCache
                /\ call' = Return([call EXCEPT !.read = io], "memory", groupsCache)
    /\ UNCHANGED <<now, groupsFile, historyFile, loaded>>
    /\ UNCHANGED outsideRegistry

\* Time passes: a millisecond, or the 24 hours of the groups TTL.
ClockAdvances(ms) ==
    /\ now + ms <= MaxDays * cacheExpiryHours * MsPerHour + 1
    /\ ms = 1 => now % (cacheExpiryHours * MsPerHour) = 0
    /\ now' = now + ms
    /\ UNCHANGED <<groupsFile, historyFile, loaded, groupsCache, call>>
    /\ UNCHANGED outsideRegistry

RegistryIdle ==
    /\ groupsCache = <<>>
    /\ call = NoCall

\* A fresh process: no snapshot yet, or the snapshot an earlier run saved.
RegistryInit ==
    /\ now = 0
    /\ groupsFile \in {GroupsMissing, GroupsData(0, <<FamGroup(10)>>)}
    /\ historyFile = HistoryMissing
    /\ loaded = NotLoaded
    /\ RegistryIdle

RegistryNext ==
    \/ \E force \in BOOLEAN : GetAllGroupsCalled(force)
    \/ \E io \in ReadOutcomes : GagLoad(io)
    \/ \E reply \in FetchReplies : GagProbe(reply)
    \/ \E reply \in FetchReplies : GagFetch(reply)
    \/ \E io \in WriteOutcomes : GagSave(io)
    \/ \E io \in ReadOutcomes : GagFallback(io)
    \/ \E ms \in {1, cacheExpiryHours * MsPerHour} : ClockAdvances(ms)

-----------------------------------------------------------------------------
(* Claims about getAllGroups.                                              *)

Returned == call.pc = "idle" /\ call.outcome = "returned"

GroupSet(list) == {list[i] : i \in 1..Len(list)}

\* C7: a non-forced call that loaded a non-empty, unexpired snapshot and
\* whose count probe answered the snapshot's count returns exactly the
\* snapshot's list, makes no full fetch and leaves the snapshot file as it
\* was, so any number of such calls in a row return the same list.
C7_CountMatchServesSnapshot ==
    (Returned /\ ~call.force /\ call.cached # <<>> /\ call.probed = Len(call.cached))
        => /\ call.via = "cache"
           /\ call.result = call.cached
           /\ groupsFile.kind = "json"
           /\ call.result = groupsFile.groups
           /\ call.groupInfos = <<>>
           /\ ~call.wrote

C7_Witness ==
    /\ Returned
    /\ ~call.force
    /\ Len(call.cached) = 1
    /\ call.probed = 1
    /\ call.via = "cache"
    /\ call.result = groupsFile.groups

\* C8: after a full refresh whose snapshot write succeeded, the snapshot
\* file and groupsCache hold exactly the groups that the fetch returned.
C8_RefreshReplacesWholesale ==
    (Returned /\ call.via = "refresh" /\ call.wrote)
        => /\ groupsFile.kind = "json"
           /\ groupsFile.groups = call.result
           /\ GroupSet(groupsCache) = GroupSet(call.result)

\* C9: when the full fetch fails with 'rate-overlimit' and the snapshot file
\* holds a non-empty list that can be read, the call returns that list,
\* whatever the snapshot's age.
C9_RateLimitServesExpiredSnapshot ==
    (Returned /\ call.error = "rate-overlimit" /\ call.read = "ok"
              /\ groupsFile.kind = "json" /\ groupsFile.groups # <<>>)
        => call.result = groupsFile.groups

ProbeRaised == ~call.force /\ call.cached # <<>> /\ call.probed = -1

\* C22: when the count probe of a non-forced call raises, whatever the
\* error, the call returns in that step the snapshot list it loaded: no full
\* fetch, no write of the snapshot file, no error to the caller.
C22_ProbeErrorServesSnapshot ==
    /\ []((Returned /\ ProbeRaised)
            => /\ call.via = "cache"
               /\ call.result = call.cached
               /\ call.groupInfos = <<>>
               /\ call.error = "none"
               /\ ~call.wrote)
    /\ [][(call.pc = "probe" /\ call' # call /\ call'.probed = -1)
             => /\ call'.pc = "idle"
                /\ call'.outcome = "returned"
                /\ call'.result = call.cached
                /\ groupsFile' = groupsFile]_vars

\* The probe raised and the snapshot of one group was returned.
C22_Witness ==
    /\ Returned
    /\ ProbeRaised
    /\ call.via = "cache"
    /\ call.result = <<FamGroup(10)>>
    /\ groupsFile.groups = call.result
    /\ groupsCache = call.result

\* The snapshot file holds a list that has not expired.
FreshSnapshot ==
    /\ groupsFile.kind = "json"
    /\ ~Expired(now - groupsFile.lastUpdated, cacheExpiryHours)

\* C23: the count probe is issued only by a non-forced call that loaded a
\* non-empty list from an unexpired snapshot; a call that finds no snapshot,
\* or an expired one, goes from the load straight to the full fetch, a forced
\* call starts at the full fetch without load or probe, and a full fetch that
\* answers is followed by one save, after which the call returns.
C23_ProbeOnlyOnFreshSnapshot ==
    /\ [](call.pc = "probe" => (~call.force /\ call.cached # <<>>))
    /\ [](call.probed # -1 => (~call.force /\ call.cached # <<>>))
    /\ [](call.force => (call.cached = <<>> /\ call.pc \notin {"load", "probe"}))
    /\ [][(call.pc = "load" /\ call' # call)
             => /\ call'.pc \in {"probe", "fetch"}
                /\ call'.pc = "probe" => (FreshSnapshot /\ groupsFile.groups # <<>>)
                /\ ~FreshSnapshot => call'.pc = "fetch"]_vars
    /\ [][(call.pc = "idle" /\ call' # call)
             => call'.pc = (IF call'.force THEN "fetch" ELSE "load")]_vars
    /\ [][(call.pc = "fetch" /\ call' # call /\ call'.error = "none")
             => (call'.pc = "save" /\ groupsFile' = groupsFile)]_vars
    /\ [][(call.pc = "save" /\ call' # call)
             => (call'.pc = "idle" /\ call'.via = "refresh"
                   /\ call'.result = call.groupInfos)]_vars

\* A non-forced call found the snapshot expired and is at its save, after a
\* full fetch and without a probe.
C23_Witness ==
    /\ call.pc = "save"
    /\ ~call.force
    /\ call.probed = -1
    /\ groupsFile.kind = "json"
    /\ groupsFile.groups # <<>>
    /\ ~FreshSnapshot
    /\ call.groupInfos # <<>>

\* C25 as stated: a non-forced call that loaded a snapshot with
\* participantCount 10 for 40@g.us, and whose probe saw 12 participants in
\* that group, makes a full refresh and returns the list with 12.
C25_ParticipantChangeRefreshes ==
    (Returned /\ ~call.force /\ call.cached = <<FamGroup(10)>> /\ call.seen = <<FamGroup(12)>>)
        => (call.via = "refresh" /\ call.result = <<FamGroup(12)>>)

\* C25 as amended: the probe compares the number of groups only.  A
\* non-forced call whose probe counted as many groups as the snapshot lists
\* returns the snapshot, also when the probe saw another participantCount;
\* a call whose probe counted another number goes on to one full fetch, and
\* the list it then saves and returns is the one built from that fetch.
C25_GroupCountChangeRefreshes ==
    (Returned /\ ~call.force /\ call.cached # <<>> /\ call.probed >= 0) =>
        /\ call.probed = Len(call.cached)
              => (call.via = "cache" /\ call.result = call.cached /\ ~call.wrote)
        /\ call.probed # Len(call.cached)
              => /\ call.via \in {"refresh", "snapshot", "memory"}
                 /\ call.via = "refresh" => call.result = call.groupInfos
                 /\ call.wrote => (groupsFile.kind = "json" /\ groupsFile.groups = call.groupInfos)

\* The snapshot held one group with 10 participants, the probe counted two
\* groups, and the refresh saved and returned the one group with 12.
C25_Witness ==
    /\ Returned
    /\ ~call.force
    /\ call.cached = <<FamGroup(10)>>
    /\ call.probed = 2
    /\ call.via = "refresh"
    /\ call.wrote
    /\ call.result = <<FamGroup(12)>>
    /\ groupsFile.groups = <<FamGroup(12)>>

-----------------------------------------------------------------------------
(* The metadata queue: group events, processMetadataQueue and              *)
(* fetchMetadataWithRateLimit, one step per await.                         *)

MaxEnqueued == 2

GroupsUpdateDelayMs == 2000
ParticipantsUpdateDelayMs == 3000
RetryRoundDelayMs == 10000
MaxRetryCount == 3

TimerDelays == {GroupsUpdateDelayMs, ParticipantsUpdateDelayMs, RetryRoundDelayMs}

NoTimers == [ms \in TimerDelays |-> 0]

TimerCount == timers[GroupsUpdateDelayMs] + timers[ParticipantsUpdateDelayMs]
              + timers[RetryRoundDelayMs]

\* setTimeout(() => processMetadataQueue(sock), ms)
setTimeout(pending, ms) == [pending EXCEPT ![ms] = @ + 1]

\* { jid, retryCount }, with the number of the push that appended it
Entry(jid, retryCount, seq) == [jid |-> jid, retryCount |-> retryCount, seq |-> seq]

NoEntry == Entry(NoJid, 0, 0)

\* metadataQueue.push for every update of a groups.update event
RECURSIVE PushAll(_, _, _)
PushAll(queue, jids, seq) ==
    IF jids = <<>> THEN queue
    ELSE PushAll(Append(queue, Entry(Head(jids), 0, seq + 1)), Tail(jids), seq + 1)

\* groupsCache.delete(jid)
CacheDelete(cache, jid) == SelectSeq(cache, LAMBDA g : g.jid # jid)

\* groupsCache.get(jid)
CacheHas(cache, jid) == \E i \in 1..Len(cache) : cache[i].jid = jid

\* const delay = 2000 + (retryCount * 3000)
FetchDelayMs(retryCount) == 2000 + (retryCount * 3000)

\* What sock.groupMetadata answers
MetadataReplies ==
    [error : {"none"}, subject : {Str(<<>>)}, participants : {11}]
    \cup [error : FetchErrors, subject : {Undefined}, participants : {0}]

NoFetch == [item |-> NoEntry, reply |-> [error |-> "none", subject |-> Undefined, participants |-> 0]]

\* The groupInfo fetchMetadataWithRateLimit builds from the metadata
MetadataInfo(jid, reply) == GroupInfoOf(LiveGroup(jid, reply.subject, reply.participants))

\* a processMetadataQueue without the isProcessingQueue test
MayStartUnguarded(processing, queue) == Len(queue) # 0

\* The two early returns of processMetadataQueue
MayStart(processing, queue) == ~processing /\ Len(queue) # 0

\* a retry without ceiling test on non rate-limit errors
ShouldRetryAnyError(error, retryCount) == error # "none" /\ retryCount < MaxRetryCount

\* error.message === 'rate-overlimit' && retryCount < 3
ShouldRetry(error, retryCount) == error = "rate-overlimit" /\ retryCount < MaxRetryCount

\* metadataQueue.unshift instead of push
RequeueAtHead(queue, entry) == <<entry>> \o queue

\* metadataQueue.push({ jid, retryCount: retryCount + 1 })
Requeue(queue, entry) == Append(queue, entry)

\* while (metadataQueue.length > 1)
LoopContinuesButLast(queue) == Len(queue) > 1

\* while (metadataQueue.length > 0)
LoopContinues(queue) == Len(queue) > 0

\* a handler that pushes without arming the timer
ScheduleNever(pending, ms) == pending

\* The setTimeout of the two event handlers
Schedule(pending, ms) == setTimeout(pending, ms)

\* A run at its metadataQueue.shift(), entering fetchMetadataWithRateLimit
RunAt(queue, requeued) ==
    [pc |-> "delay", item |-> Head(queue), delay |-> FetchDelayMs(Head(queue).retryCount),
     requeued |-> requeued]

RemoveAt(seq, i) == [k \in 1..(Len(seq) - 1) |-> IF k < i THEN seq[k] ELSE seq[k + 1]]

\* sock.ev.on('groups.update')
GroupsUpdate(updates) ==
    /\ IF Len(groupsCache) = 0
       THEN UNCHANGED <<metadataQueue, pushed, enqueued, timers>>
       ELSE /\ enqueued + Len(updates) <= MaxEnqueued
            /\ metadataQueue' = PushAll(metadataQueue, updates, pushed)
            /\ pushed' = pushed + Len(updates)
            /\ enqueued' = enqueued + Len(updates)
            /\ timers' = Schedule(timers, GroupsUpdateDelayMs)
    /\ UNCHANGED <<groupsCache, isProcessingQueue, runs, fetched, failures, lastFetch>>
    /\ UNCHANGED outsideQueue

\* sock.ev.on('group-participants.update'); self says that the event names
\* sock.user.id among its participants
GroupParticipantsUpdate(id, action, self) ==
    /\ IF action = "remove" /\ self
       THEN /\ groupsCache' = CacheDelete(groupsCache, id)
            /\ UNCHANGED <<metadataQueue, pushed, enqueued, timers>>
       ELSE /\ UNCHANGED groupsCache
            /\ IF CacheHas(groupsCache, id)
               THEN /\ enqueued < MaxEnqueued
                    /\ metadataQueue' = Append(metadataQueue, Entry(id, 0, pushed + 1))
                    /\ pushed' = pushed + 1
                    /\ enqueued' = enqueued + 1
                    /\ timers' = Schedule(timers, ParticipantsUpdateDelayMs)
               ELSE UNCHANGED <<metadataQueue, pushed, enqueued, timers>>
    /\ UNCHANGED <<isProcessingQueue, runs, fetched, failures, lastFetch>>
    /\ UNCHANGED outsideQueue

\* A timer fires and calls processMetadataQueue, which runs up to the first
\* await inside fetchMetadataWithRateLimit.
ProcessMetadataQueue(ms) ==
    /\ timers[ms] > 0
    /\ LET fired == [timers EXCEPT ![ms] = @ - 1]
       IN  IF MayStart(isProcessingQueue, metadataQueue)
           THEN IF LoopContinues(metadataQueue)
                THEN /\ isProcessingQueue' = TRUE
                     /\ runs' = Append(runs, RunAt(metadataQueue, {}))
                     /\ metadataQueue' = Tail(metadataQueue)
                     /\ timers' = fired
                ELSE /\ isProcessingQueue' = FALSE
                     /\ timers' = IF Len(metadataQueue) > 0
                                  THEN setTimeout(fired, RetryRoundDelayMs)
                                  ELSE fired
                     /\ UNCHANGED <<runs, metadataQueue>>
           ELSE /\ timers' = fired
                /\ UNCHANGED <<isProcessingQueue, runs, metadataQueue>>
    /\ UNCHANGED <<groupsCache, pushed, fetched, failures, lastFetch, enqueued>>
    /\ UNCHANGED outsideQueue

\* The delay of fetchMetadataWithRateLimit is over: sock.groupMetadata(jid)
\* is called.
FetchDelayElapsed(i) ==
    /\ i \in 1..Len(runs)
    /\ runs[i].pc = "delay"
    /\ runs' = [runs EXCEPT ![i].pc = "fetch"]
    /\ fetched' = fetched + 1
    /\ UNCHANGED <<groupsCache, metadataQueue, isProcessingQueue, timers, pushed,
                   failures, lastFetch, enqueued>>
    /\ UNCHANGED outsideQueue

\* sock.groupMetadata comes back: the rest of fetchMetadataWithRateLimit, then
\* the loop of processMetadataQueue up to its next await or to its end.
GroupMetadataReturns(i, reply) ==
    /\ i \in 1..Len(runs)
    /\ runs[i].pc = "fetch"
    /\ LET item == runs[i].item
           retry == ShouldRetry(reply.error, item.retryCount)
           queue == IF retry
                    THEN Requeue(metadataQueue, Entry(item.jid, item.retryCount + 1, pushed + 1))
                    ELSE metadataQueue
           requeued == IF retry THEN runs[i].requeued \cup {pushed + 1} ELSE runs[i].requeued
       IN  /\ groupsCache' = IF reply.error = "none"
                             THEN CacheSet(groupsCache, MetadataInfo(item.jid, reply))
                             ELSE groupsCache
           /\ pushed' = IF retry THEN pushed + 1 ELSE pushed
           /\ failures' = IF reply.error = "none" THEN failures ELSE 1
           /\ lastFetch' = [item |-> item, reply |-> reply]
           /\ IF LoopContinues(queue)
              THEN /\ runs' = [runs EXCEPT ![i] = RunAt(queue, requeued)]
                   /\ metadataQueue' = Tail(queue)
                   /\ UNCHANGED <<isProcessingQueue, timers>>
              ELSE /\ runs' = RemoveAt(runs, i)
                   /\ metadataQueue' = queue
                   /\ isProcessingQueue' = FALSE
                   /\ timers' = IF Len(queue) > 0
                                THEN setTimeout(timers, RetryRoundDelayMs)
                                ELSE timers
    /\ UNCHANGED <<fetched, enqueued>>
    /\ UNCHANGED outsideQueue

QueueIdle ==
    /\ metadataQueue = <<>>
    /\ isProcessingQueue = FALSE
    /\ runs = <<>>
    /\ timers = NoTimers
    /\ pushed = 0
    /\ fetched = 0
    /\ failures = 0
    /\ lastFetch = NoFetch
    /\ enqueued = 0

QueueStartLists == {<<>>, <<LiveFam(10), LiveUnnamed>>}

\* The registry as a getAllGroups call left it.
QueueInit ==
    /\ StorageIdle
    /\ call = NoCall
    /\ groupsCache \in {CacheSetAll(<<>>, GroupInfosOf(list)) : list \in QueueStartLists}
    /\ QueueIdle

UpdateLists == {<<G1>>, <<G1, G2>>}

QueueNext ==
    \/ \E updates \in UpdateLists : GroupsUpdate(updates)
    \/ \E id \in {G1, G2}, action \in {"add", "remove"}, self \in BOOLEAN :
           GroupParticipantsUpdate(id, action, self)
    \/ \E ms \in TimerDelays : ProcessMetadataQueue(ms)
    \/ \E i \in 1..Len(runs) : FetchDelayElapsed(i)
    \/ \E i \in 1..Len(runs), reply \in MetadataReplies : GroupMetadataReturns(i, reply)

-----------------------------------------------------------------------------
(* Claims about the metadata queue.                                        *)

\* A pending timer fired in this step: processMetadataQueue was called.
DrainCalled == TimerCount' < TimerCount

\* C11: at most one processMetadataQueue run is between setting and clearing
\* isProcessingQueue, and a processMetadataQueue call made while a run is
\* active shifts no entry and issues no fetch.
C11_SingleFlight ==
    /\ [](Len(runs) <= 1 /\ (isProcessingQueue <=> Len(runs) = 1))
    /\ [][(DrainCalled /\ isProcessingQueue)
             => /\ metadataQueue' = metadataQueue
                /\ runs' = runs
                /\ fetched' = fetched
                /\ isProcessingQueue']_vars

\* Two events queued 40@g.us, both timers have fired, and one run holds the
\* first entry while the second still waits.
C11_Witness ==
    /\ isProcessingQueue
    /\ TimerCount = 0
    /\ fetched = 0
    /\ Len(runs) = 1
    /\ runs[1].item = Entry(G1, 0, 1)
    /\ metadataQueue = <<Entry(G1, 0, 2)>>

\* The entries that wait in the queue or are held by a run
Waiting(queue, active) ==
    {queue[k] : k \in 1..Len(queue)} \cup {active[k].item : k \in 1..Len(active)}

\* A sock.groupMetadata call came back in this step.
FetchReturned == lastFetch' # lastFetch

\* C12: an entry is pushed back, with retryCount + 1, exactly when its fetch
\* failed with 'rate-overlimit' and its retryCount was below 3; after any
\* other failure, or at retryCount 3, it is gone; no entry ever carries a
\* retryCount above 3, so an entry is fetched at most 4 times.
C12_RetryCeiling ==
    /\ [](\A e \in Waiting(metadataQueue, runs) : e.retryCount <= 3)
    /\ [][FetchReturned =>
             LET item == lastFetch'.item
                 error == lastFetch'.reply.error
             IN  /\ \A e \in Waiting(metadataQueue', runs') : e.seq # item.seq
                 /\ IF error = "rate-overlimit" /\ item.retryCount < 3
                    THEN /\ pushed' = pushed + 1
                         /\ Entry(item.jid, item.retryCount + 1, pushed')
                               \in Waiting(metadataQueue', runs')
                    ELSE /\ pushed' = pushed
                         /\ Waiting(metadataQueue', runs') \subseteq Waiting(metadataQueue, runs)]_vars

\* One entry failed four times with 'rate-overlimit' and was dropped.
C12_Witness ==
    /\ enqueued = 1
    /\ pushed = 4
    /\ fetched = 4
    /\ lastFetch.item.retryCount = 3
    /\ lastFetch.reply.error = "rate-overlimit"
    /\ metadataQueue = <<>>
    /\ ~isProcessingQueue

\* C13: a run never holds an entry that it pushed back itself after a
\* 'rate-overlimit' failure: such an entry waits for the run that the
\* 10 s timer starts.
C13_RetriesWaitForNextRun ==
    \A k \in 1..Len(runs) : runs[k].item.seq \notin runs[k].requeued

Drained == ~isProcessingQueue /\ metadataQueue = <<>>

\* C14: when timers fire and every await comes back, a run that has begun
\* ends with metadataQueue empty and isProcessingQueue false, whatever the
\* fetches answer; when no fetch has failed, a drained queue means exactly as
\* many fetches as entries were queued; every fetch that succeeds puts the
\* group it fetched into groupsCache.
C14_DrainTerminates ==
    /\ isProcessingQueue ~> Drained
    /\ []((Drained /\ failures = 0) => (fetched = enqueued /\ pushed = enqueued))
    /\ [][(FetchReturned /\ lastFetch'.reply.error = "none")
             => MetadataInfo(lastFetch'.item.jid, lastFetch'.reply) \in GroupSet(groupsCache')]_vars

\* Two queued entries, two successful fetches, and the queue is drained.
C14_Witness ==
    /\ Drained
    /\ TimerCount = 0
    /\ enqueued = 2
    /\ fetched = 2
    /\ failures = 0
    /\ lastFetch.item = Entry(G2, 0, 2)
    /\ MetadataInfo(G2, lastFetch.reply) \in GroupSet(groupsCache)

\* The largest push number: every queued entry and its retries
MaxSeq == MaxEnqueued * (MaxRetryCount + 1)

\* C15: a non-empty queue always has a run active or a timer pending, and,
\* when timers fire and every await comes back, every entry that is in the
\* queue is eventually fetched, also one pushed while a run is active.
C15_QueuedEntriesAreFetched ==
    /\ [](metadataQueue # <<>> => (isProcessingQueue \/ TimerCount > 0))
    /\ \A n \in 1..MaxSeq :
          (\E k \in 1..Len(metadataQueue) : metadataQueue[k].seq = n)
              ~> (lastFetch.item.seq = n)

\* The entry of a second event was fetched by the run that the first
\* event's timer started: its own timer is still pending.
C15_Witness ==
    /\ Drained
    /\ enqueued = 2
    /\ fetched = 2
    /\ lastFetch.item = Entry(G1, 0, 2)
    /\ timers[GroupsUpdateDelayMs] = 0
    /\ timers[ParticipantsUpdateDelayMs] = 1

\* C16: entries are fetched in the order of their pushes: the entries held
\* by the run and waiting in the queue are, in this order, the pushes that
\* follow the last fetch issued, so an entry pushed back after a
\* 'rate-overlimit' failure is fetched after all that were queued before it.
C16_FetchesInPushOrder ==
    /\ Len(runs) <= 1
    /\ LET held == IF Len(runs) = 1 /\ runs[1].pc = "delay" THEN <<runs[1].item>> ELSE <<>>
           ahead == held \o metadataQueue
       IN  /\ Len(ahead) = pushed - fetched
           /\ \A k \in 1..Len(ahead) : ahead[k].seq = fetched + k
    /\ (Len(runs) = 1 /\ runs[1].pc = "fetch") => runs[1].item.seq = fetched

\* 40@g.us failed with 'rate-overlimit' while 41@g.us was waiting: its retry
\* stands behind 41@g.us.
C16_Witness ==
    /\ Len(runs) = 1
    /\ runs[1].item = Entry(G2, 0, 2)
    /\ metadataQueue = <<Entry(G1, 1, 3)>>
    /\ lastFetch.item = Entry(G1, 0, 1)

\* C27: once the handler of a 'remove' event that names the current user
\* has deleted a group from groupsCache, no step of the metadata queue puts
\* it back.  No getAllGroups runs in this specification, and a group is
\* missing from a registry that is not empty only after such an event (the
\* registry starts with both groups, or empty, and then nothing is queued).
C27_LeftGroupStaysAbsent ==
    [][\A g \in {G1, G2} :
          ~CacheHas(groupsCache, g) => ~CacheHas(groupsCache', g)]_vars

-----------------------------------------------------------------------------
(* The commands /cacheinfo and /groups, up to their replies.               *)

NoCommand == [last |-> "none", count |-> 0, current |-> -1, mismatch |-> FALSE,
              listed |-> <<>>]

\* listAllGroupNames()
listAllGroupNames(cache) == [i \in 1..Len(cache) |-> cache[i].name]

\* getGroupsCacheInfo(sock): currentCount and countMismatch stay undefined
\* (-1, FALSE) without a snapshot file or when the fetch throws
getGroupsCacheInfo(cache, file, reply) ==
    LET exists == file.kind # "missing"
        asked == exists /\ reply.error = "none"
    IN  [count |-> Len(cache),
         current |-> IF asked THEN Len(reply.groups) ELSE -1,
         mismatch |-> asked /\ Len(reply.groups) # Len(cache)]

\* handleCacheInfoCommand: with countMismatch the reply says 'Cache will
\* auto-update on next /groups command'
CacheInfoCommand(reply) ==
    /\ LET info == getGroupsCacheInfo(groupsCache, groupsFile, reply)
       IN  cmd' = [last |-> "cacheinfo", count |-> info.count, current |-> info.current,
                   mismatch |-> info.mismatch, listed |-> <<>>]
    /\ UNCHANGED <<contactVars, resolverVars, storageVars, registryVars, queueVars,
                   startupVars, historyVars, suggestVars, renameVars, assistantVars,
                   saveVars, upsertVars, inFlightVars>>

\* handleGroupsCommand: the list it sends
GroupsCommand ==
    /\ cmd' = [cmd EXCEPT !.last = "groups", !.listed = listAllGroupNames(groupsCache),
                          !.mismatch = (cmd.last = "cacheinfo" /\ cmd.mismatch)]
    /\ UNCHANGED <<contactVars, resolverVars, storageVars, registryVars, queueVars,
                   startupVars, historyVars, suggestVars, renameVars, assistantVars,
                   saveVars, upsertVars, inFlightVars>>

CommandsIdle == cmd = NoCommand

CommandsNext ==
    \/ \E force \in BOOLEAN : GetAllGroupsCalled(force)
    \/ \E io \in ReadOutcomes : GagLoad(io)
    \/ \E reply \in FetchReplies : GagProbe(reply)
    \/ \E reply \in FetchReplies : GagFetch(reply)
    \/ \E io \in WriteOutcomes : GagSave(io)
    \/ \E io \in ReadOutcomes : GagFallback(io)
    \/ \E reply \in FetchReplies : CacheInfoCommand(reply)
    \/ GroupsCommand

\* C34: the /groups command that follows a /cacheinfo reply with a count
\* mismatch lists as many groups as /cacheinfo counted live.
C34_GroupsCommandRefreshes ==
    (cmd.last = "groups" /\ cmd.mismatch) => Len(cmd.listed) = cmd.current

-----------------------------------------------------------------------------
(* A per-group metadata refresh followed by getAllGroups calls.            *)

PatchInit ==
    /\ now = 0
    /\ groupsFile = GroupsData(0, <<FamGroup(10)>>)
    /\ historyFile = HistoryMissing
    /\ loaded = NotLoaded
    /\ groupsCache = <<FamGroup(10)>>
    /\ call = NoCall
    /\ QueueIdle

PatchNext ==
    \/ GroupsUpdate(<<G1>>)
    \/ \E ms \in TimerDelays : ProcessMetadataQueue(ms)
    \/ \E i \in 1..Len(runs) : FetchDelayElapsed(i)
    \/ \E i \in 1..Len(runs), reply \in MetadataReplies : GroupMetadataReturns(i, reply)
    \/ GetAllGroupsCalled(FALSE)
    \/ \E io \in ReadOutcomes : GagLoad(io)
    \/ \E reply \in FetchReplies : GagProbe(reply)
    \/ \E reply \in FetchReplies : GagFetch(reply)
    \/ \E io \in WriteOutcomes : GagSave(io)
    \/ \E io \in ReadOutcomes : GagFallback(io)

\* The record of the last fetchMetadataWithRateLimit that succeeded is in
\* the given registry
HoldsRefreshed(cache) ==
    \E i \in 1..Len(cache) : cache[i] = MetadataInfo(lastFetch.item.jid, lastFetch.reply)

\* C35: a record that fetchMetadataWithRateLimit refreshed in groupsCache is
\* still there, with its refreshed values, after a non-forced getAllGroups
\* call whose count probe matched.
C35_RefreshedRecordSurvivesCacheHit ==
    [][(/\ lastFetch.item # NoEntry
        /\ lastFetch.reply.error = "none"
        /\ HoldsRefreshed(groupsCache)
        /\ call.pc = "probe"
        /\ call'.pc = "idle"
        /\ call'.via = "cache") => HoldsRefreshed(groupsCache')]_vars

-----------------------------------------------------------------------------
(* The start of the contact directory: loadPersistedContacts.              *)

\* What ensureDataDirectory and the two fs.readFileSync can do.
StartupOutcomes == [dir : ReadOutcomes, primary : ReadOutcomes, backup : ReadOutcomes]

\* JSON.parse(fs.readFileSync(path, 'utf8')): the parsed store, or a throw
Readable(file, io) == io = "ok" /\ file.kind = "json"

Loaded(store, source) == [store |-> store, source |-> source, raised |-> FALSE]

\* The catch block of loadPersistedContacts: the backup file
loadBackupContactsBare(backup, io) ==
    IF backup.kind = "missing" THEN Loaded(<<>>, "empty")
    ELSE IF Readable(backup, io.backup) THEN Loaded(backup.body, "backup")
    ELSE [store |-> <<>>, source |-> "none", raised |-> TRUE]

loadBackupContacts(backup, io) ==
    IF backup.kind # "missing" /\ Readable(backup, io.backup)
    THEN Loaded(backup.body, "backup")
    ELSE Loaded(<<>>, "empty")

loadPersistedContacts(primary, backup, io) ==
    IF io.dir # "ok" THEN loadBackupContacts(backup, io)
    ELSE IF primary.kind = "missing" THEN Loaded(<<>>, "fresh")
    ELSE IF Readable(primary, io.primary) THEN Loaded(primary.body, "primary")
    ELSE loadBackupContacts(backup, io)

NotStarted == [io |-> [dir |-> "none", primary |-> "none", backup |-> "none"],
               source |-> "none", raised |-> FALSE]

\* initializeContactStore(), called by setupPAHandler; once is TRUE for the
\* first call of a process only
InitializeContactStore(io, once) ==
    /\ once => startup = NotStarted
    /\ NoTimerDue
    /\ LET r == loadPersistedContacts(primaryFile, backupFile, io)
       IN  /\ contactStore' = IF r.raised THEN contactStore ELSE r.store
           /\ startup' = [io |-> io, source |-> r.source, raised |-> r.raised]
    /\ flushLog' = "none"
    /\ UNCHANGED <<saveTimeout, pendingSaves, primaryFile, backupFile, sinceCall,
                   sinceSched, burstCalls, burstSaves, burstStore, burstCleared, burstPayload>>
    /\ UNCHANGED <<resolverVars, storageVars, registryVars, queueVars, historyVars, suggestVars,
                   moreVars>>

StartupIdle == startup = NotStarted

\* The files that savePersistedContacts leaves: none, a store, a torn write.
ContactFiles ==
    {Missing, Corrupt} \cup {Stringify(store) : store \in {st \in StorePool : Len(st) <= 1}}

\* A process starts on the files of an earlier one.
StartupInit ==
    /\ contactStore = <<>>
    /\ saveTimeout = FALSE
    /\ pendingSaves = <<>>
    /\ primaryFile \in ContactFiles
    /\ backupFile \in ContactFiles
    /\ flushLog = "none"
    /\ sinceCall = QuietTicks
    /\ sinceSched = QuietTicks
    /\ burstCalls = 0
    /\ burstSaves = 0
    /\ burstStore = Stringify(<<>>)
    /\ burstCleared = FALSE
    /\ burstPayload = Missing
    /\ StartupIdle

StartupNext == \E io \in StartupOutcomes : InitializeContactStore(io, TRUE)

\* C17: initializeContactStore never raises; it takes the primary file's
\* store when that file can be read and parsed; when the primary file exists
\* but cannot be read or parsed, it takes the backup file's store if that one
\* can be read and parsed, and the empty store if not.
C17_LoadFallsBackToBackup ==
    startup # NotStarted =>
        /\ ~startup.raised
        /\ (startup.io.dir = "ok" /\ Readable(primaryFile, startup.io.primary))
              => (startup.source = "primary" /\ contactStore = primaryFile.body)
        /\ (startup.io.dir = "ok" /\ primaryFile.kind # "missing"
                /\ ~Readable(primaryFile, startup.io.primary))
              => IF Readable(backupFile, startup.io.backup)
                 THEN startup.source = "backup" /\ contactStore = backupFile.body
                 ELSE startup.source = "empty" /\ contactStore = <<>>

\* A torn primary file, a backup with a contact in it: the backup is taken.
C17_Witness ==
    /\ startup # NotStarted
    /\ primaryFile = Corrupt
    /\ backupFile.kind = "json"
    /\ startup.source = "backup"
    /\ contactStore = backupFile.body
    /\ contactStore # <<>>

\* What the reads of a later setupPAHandler run do: the directory is there.
RestartOutcomes == {io \in StartupOutcomes : io.dir = "ok" /\ io.backup = "ok"}

\* The events of the contact directory, and setupPAHandler run again on a
\* new socket.
DirectoryNext ==
    \/ \E type \in {"notify", "append"}, msg \in Messages : MessagesUpsert(type, msg)
    \/ \E io \in {"ok", "failsBeforeWrite"} : clearAllContacts(io)
    \/ \E io \in {"ok", "failsBeforeWrite"} : DebounceTimerFires(io)
    \/ Tick
    \/ \E io \in RestartOutcomes : InitializeContactStore(io, FALSE)

\* C26: a step removes a record from contactStore only if it is
\* clearAllContacts, the one step that empties the store and runs
\* savePersistedContacts; under every other event each jid of the store is
\* still a jid of the store afterwards.
C26_RecordsStayUntilCleared ==
    [][\/ \A i \in 1..Len(contactStore) : HasKey(contactStore', contactStore[i].jid)
       \/ contactStore' = <<>> /\ flushLog' # "none"]_vars

-----------------------------------------------------------------------------
(* Conversation histories: getGroupHistory, saveGroupHistory, the index    *)
(* and cleanExpiredHistoryCache.                                           *)

\* The history file of a conversation
HistoryOf(jid, fetchedAt, messages) ==
    [GroupHistoryData(fetchedAt, messages) EXCEPT !.groupJid = jid]

\* getGroupCacheFile(groupJid)
HistoryFileOf(jid) == IF jid = G1 THEN historyFile ELSE historyFileG2

\* String.prototype.trim, for the space character
RECURSIVE TrimStart(_)
TrimStart(chars) ==
    IF chars # <<>> /\ Head(chars) = " " THEN TrimStart(Tail(chars)) ELSE chars

RECURSIVE TrimEnd(_)
TrimEnd(chars) ==
    IF chars # <<>> /\ chars[Len(chars)] = " "
    THEN TrimEnd(SubSeq(chars, 1, Len(chars) - 1))
    ELSE chars

trim(chars) == TrimEnd(TrimStart(chars))

NoGroup == GroupInfo(NoJid, Undefined, 0)

\* findGroupByName over the values of groupsCache: null is NoGroup
findGroupByName(cache, groupName) ==
    LET searchTerm == trim(toLowerCase(groupName))
        exact == {i \in 1..Len(cache) : toLowerCase(cache[i].name.s) = searchTerm}
        partial == {i \in 1..Len(cache) : includes(toLowerCase(cache[i].name.s), searchTerm)}
        First(set) == cache[CHOOSE i \in set : \A k \in set : i <= k]
    IN  IF exact # {} THEN First(exact)
        ELSE IF partial # {} THEN First(partial)
        ELSE NoGroup

NoHistoryCall == [name |-> <<>>, io |-> "none", group |-> NoJid, outcome |-> "none",
                  result |-> HistoryMissing]

\* await getGroupHistory(groupName)
GetGroupHistory(groupName, io) ==
    /\ LET groupInfo == findGroupByName(groupsCache, groupName)
           cachedHistory == loadGroupHistory(HistoryFileOf(groupInfo.jid), now, io)
           seen == [name |-> groupName, io |-> io, group |-> groupInfo.jid,
                    outcome |-> "returned", result |-> HistoryMissing]
       IN  history' =
              IF groupInfo = NoGroup THEN [seen EXCEPT !.io = "none", !.outcome = "raised"]
              ELSE IF cachedHistory.kind = "raised" THEN [seen EXCEPT !.outcome = "raised"]
              ELSE IF cachedHistory # HistoryMissing THEN [seen EXCEPT !.result = cachedHistory]
              ELSE [seen EXCEPT !.result = HistoryOf(groupInfo.jid, now, <<>>)]
    /\ UNCHANGED <<historyIndex, historyFileG2, cleaned>>
    /\ UNCHANGED <<contactVars, resolverVars, storageVars, registryVars, queueVars,
                   startupVars, suggestVars, moreVars>>

\* history_index.json: the entries of the index object in insertion order
IndexFile(entries) == [kind |-> "json", entries |-> entries]
IndexMissing == [kind |-> "missing", entries |-> <<>>]
IndexCorrupt == [kind |-> "corrupt", entries |-> <<>>]

IndexEntry(jid, fetchedAt) == [groupJid |-> jid, fetchedAt |-> fetchedAt]

\* index[groupJid] = { groupName, fetchedAt }
IndexAssign(entries, jid, fetchedAt) ==
    IF \E k \in 1..Len(entries) : entries[k].groupJid = jid
    THEN [k \in 1..Len(entries) |->
             IF entries[k].groupJid = jid THEN IndexEntry(jid, fetchedAt) ELSE entries[k]]
    ELSE Append(entries, IndexEntry(jid, fetchedAt))

\* updateHistoryIndex: an index that cannot be read starts fresh
updateHistoryIndex(index, jid, fetchedAt, io) ==
    LET old == IF io.indexRead = "ok" /\ index.kind = "json" THEN index.entries ELSE <<>>
    IN  CASE io.indexWrite = "ok" -> IndexFile(IndexAssign(old, jid, fetchedAt))
          [] io.indexWrite = "failsPartial" -> IndexCorrupt
          [] OTHER -> index

SaveHistoryOutcomes == [file : WriteOutcomes, indexRead : ReadOutcomes, indexWrite : WriteOutcomes]

StorageCall(op, io, outcome) == [op |-> op, io |-> io, outcome |-> outcome]

NoStorageCall == StorageCall("none", "none", "none")

\* What saveGroupHistory(historyData) does to the files
WriteGroupHistory(jid, messages, io) ==
    /\ LET written == CASE io.file = "ok" -> HistoryOf(jid, now, messages)
                        [] io.file = "failsPartial" -> HistoryCorrupt
                        [] OTHER -> HistoryFileOf(jid)
       IN  /\ historyFile' = IF jid = G1 THEN written ELSE historyFile
           /\ historyFileG2' = IF jid = G1 THEN historyFileG2 ELSE written
    /\ historyIndex' = IF io.file = "ok"
                       THEN updateHistoryIndex(historyIndex, jid, now, io)
                       ELSE historyIndex
    /\ UNCHANGED <<now, groupsFile, loaded, history, cleaned>>
    /\ UNCHANGED <<contactVars, resolverVars, registryVars, queueVars, startupVars, suggestVars,
                   renameVars, assistantVars, upsertVars, commandVars, inFlightVars>>

\* await saveGroupHistory(historyData)
SaveGroupHistory(jid, messages, io) ==
    /\ WriteGroupHistory(jid, messages, io)
    /\ UNCHANGED saveVars

\* getGroupHistoryCacheInfo: exists, and the age by the file's own fetchedAt
CacheInfoExists(file) == file.kind = "json"

\* getAllCachedHistories: the index entries whose history file can be read
getAllCachedHistories(index, io) ==
    IF io.indexRead # "ok" \/ index.kind # "json" THEN <<>>
    ELSE SelectSeq(index.entries, LAMBDA e : CacheInfoExists(HistoryFileOf(e.groupJid)))

\* The conversations whose file cleanExpiredHistoryCache unlinks
ExpiredHistories(index, time, io) ==
    LET cachedHistories == getAllCachedHistories(index, io)
    IN  {cachedHistories[k].groupJid : k \in
            {k \in 1..Len(cachedHistories) :
                Expired(time - HistoryFileOf(cachedHistories[k].groupJid).fetchedAt,
                        CACHE_DURATION_HOURS)}}

CleanOutcomes == [indexRead : ReadOutcomes, unlink : ReadOutcomes]

NotCleaned == [ran |-> FALSE, at |-> 0, io |-> [indexRead |-> "none", unlink |-> "none"]]

\* await cleanExpiredHistoryCache(): it unlinks history files and never
\* writes history_index.json
CleanExpiredHistoryCache(io) ==
    /\ LET doomed == IF io.unlink = "ok" THEN ExpiredHistories(historyIndex, now, io) ELSE {}
       IN  /\ historyFile' = IF G1 \in doomed THEN HistoryMissing ELSE historyFile
           /\ historyFileG2' = IF G2 \in doomed THEN HistoryMissing ELSE historyFileG2
    /\ cleaned' = [ran |-> TRUE, at |-> now, io |-> io]
    /\ UNCHANGED <<now, groupsFile, loaded, history, historyIndex>>
    /\ UNCHANGED <<contactVars, resolverVars, registryVars, queueVars, startupVars, suggestVars,
                   moreVars>>

HistoryIdle ==
    /\ history = NoHistoryCall
    /\ historyIndex = IndexMissing
    /\ historyFileG2 = HistoryMissing
    /\ cleaned = NotCleaned

HistoryNext ==
    \/ \E jid \in {G1, G2}, messages \in {<<"m1">>}, io \in SaveHistoryOutcomes :
           SaveGroupHistory(jid, messages, io)
    \/ \E io \in CleanOutcomes : CleanExpiredHistoryCache(io)
    \/ \E ms \in {1, CACHE_DURATION_HOURS * MsPerHour} : ClockAdvances(ms)

\* C19: when cleanExpiredHistoryCache has read the index and its unlinks
\* succeeded, no history file that the index names is older than 6 h, and
\* the index holds no entry older than 6 h.
C19_CleanRemovesExpiredEntries ==
    (cleaned.ran /\ cleaned.at = now /\ cleaned.io.indexRead = "ok"
        /\ cleaned.io.unlink = "ok" /\ historyIndex.kind = "json")
      => \A k \in 1..Len(historyIndex.entries) :
            LET e == historyIndex.entries[k]
            IN  /\ HistoryFileOf(e.groupJid).kind = "json"
                     => ~Expired(now - HistoryFileOf(e.groupJid).fetchedAt, CACHE_DURATION_HOURS)
                /\ ~Expired(now - e.fetchedAt, CACHE_DURATION_HOURS)

-----------------------------------------------------------------------------
(* Suggestions: tryGetContactNameFromUser.                                 *)

SuggestionLimit == 5

\* (contact.name || contact.notify || '').toLowerCase()
suggestionName(rec) == toLowerCase(Or(Or(rec.name, rec.notify), Str(<<>>)).s)

\* a filter that also lists every record that has a name
SuggestionMatchNamed(rec, targetName) ==
    \/ Truthy(rec.name)
    \/ includes(suggestionName(rec), toLowerCase(targetName))
    \/ includes(toLowerCase(targetName), toLowerCase(suggestionName(rec)))

\* The filter of possibleMatches
SuggestionMatch(rec, targetName) ==
    \/ includes(suggestionName(rec), toLowerCase(targetName))
    \/ includes(toLowerCase(targetName), toLowerCase(suggestionName(rec)))

\* .slice(0, 5)
Slice(seq, n) == SubSeq(seq, 1, Min(n, Len(seq)))

\* possibleMatches: the entries that the message lists
possibleMatches(store, targetName) ==
    Slice(SelectSeq(store, LAMBDA e : SuggestionMatch(e.rec, targetName)), SuggestionLimit)

NotSuggested == [name |-> <<>>, asked |-> FALSE, candidates |-> <<>>]

\* await tryGetContactNameFromUser(sock, targetName, originalSender)
TryGetContactNameFromUser(targetName) ==
    /\ suggested' = [name |-> targetName, asked |-> TRUE,
                     candidates |-> possibleMatches(contactStore, targetName)]
    /\ UNCHANGED <<contactVars, resolverVars, storageVars, registryVars, queueVars,
                   startupVars, historyVars, moreVars>>

SuggestIdle == suggested = NotSuggested

SuggestNext == \E name \in Queries : TryGetContactNameFromUser(name)

C18_ReadErrorsAreMisses ==
    /\ (loaded # NotLoaded /\ ~LoadedSnapshot) => LoadMiss
    /\ (loaded # NotLoaded /\ LoadedSnapshot /\ loaded.age > TtlMs) => LoadMiss
    /\ (call.pc \notin {"idle", "load"} /\ ~call.force /\ groupsFile.kind # "json")
          => (call.pc = "fetch" /\ call.cached = <<>>)
    /\ (history.outcome # "none" /\ history.group # NoJid
           /\ (history.io = "fails" \/ HistoryFileOf(history.group).kind # "json"))
          => /\ history.outcome = "returned"
             /\ history.result = HistoryOf(history.group, now, <<>>)

\* The history file of 40@g.us is torn, and getGroupHistory('fam ') returned
\* an empty history.
C18_Witness ==
    /\ historyFile = HistoryCorrupt
    /\ history.group = G1
    /\ history.io = "ok"
    /\ history.outcome = "returned"
    /\ history.result.messages = <<>>
    /\ loaded.store = "history"
    /\ loaded.history = HistoryMissing
    /\ groupsFile = GroupsCorrupt
    /\ call.pc = "fetch"

GroupQueries == {<<"f", "a", "m", " ">>, <<"Z", "o", "e">>}

\* Direct loads, and the two callers of the loaders up to their load.
LoadersNext ==
    \/ TtlNext
    \/ GetAllGroupsCalled(FALSE)
    \/ \E io \in ReadOutcomes : GagLoad(io)
    \/ \E name \in GroupQueries, io \in ReadOutcomes : GetGroupHistory(name, io)

-----------------------------------------------------------------------------
(* Renamed senders: the messages of one sender under two pushNames, and    *)
(* findContactByName in between.                                           *)

Alex == <<"A", "l", "e", "x">>
Ali == <<"A", "l", "i">>

\* Direct messages of J1 as Al and as Alex, and of J2 as Ali.
RenameMessages ==
    {Message(J1, NoJid, FALSE, Str(p)) : p \in {Al, Alex}}
    \cup {Message(J2, NoJid, FALSE, Str(Ali))}

RenameQueries == {<<"a", "l">>, Alex, <<"a", "l", "e", "x">>, <<"A">>, <<"b", "o">>}

NoInbound == [pushName |-> Undefined, previous |-> Undefined]

\* messages.upsert of type 'notify' with one message; found is the last
\* findContactByName call since the last message.
InboundMessage(msg) ==
    /\ NoTimerDue
    /\ CommitContacts(extractContactFromMessage(Memory, msg), Files, FALSE)
    /\ inbound' = IF msg.remoteJid = J1
                  THEN [pushName |-> msg.pushName, previous |-> inbound.pushName]
                  ELSE inbound
    /\ found' = NotAsked
    /\ UNCHANGED <<storageVars, registryVars, queueVars, startupVars, historyVars,
                   suggestVars, assistantVars, saveVars, upsertVars, commandVars, inFlightVars>>

RenameIdle == inbound = NoInbound

RenameNext ==
    \/ \E msg \in RenameMessages : InboundMessage(msg)
    \/ \E name \in RenameQueries, reply \in {"throws", "exists"} : FindContactByName(name, reply)
    \/ \E io \in SaveOutcomes : DebounceTimerFires(io)
    \/ Tick

\* A record that stands before the one of jid passes the test of the first loop.
EarlierMatch(store, jid, name) ==
    \E i \in 1..Len(store) : i < IndexOf(store, jid) /\ SubstringMatch(store[i].rec, name)

\* C24: after a message of J1 that carries a pushName, whether its first or
\* one under a new pushName, the store holds exactly one record for J1, the
\* record's name is that pushName, and findContactByName returns J1 for every
\* query that the lower-cased pushName contains (the pushName itself, its
\* lower-cased form, a prefix it shares with the earlier pushName), unless a
\* record that stands earlier matches the query.
C24_RenamedSenderResolves ==
    Truthy(inbound.pushName) =>
        /\ Cardinality({i \in 1..Len(contactStore) : contactStore[i].jid = J1}) = 1
        /\ Lookup(contactStore, J1).name = inbound.pushName
        /\ (found.reply # "none"
               /\ includes(toLowerCase(inbound.pushName.s), toLowerCase(found.name))
               /\ ~EarlierMatch(contactStore, J1, found.name))
             => (found.jid = J1 /\ ~found.probed)

\* J1 wrote as Al, then as Alex, and 'Alex' resolves to J1 past the record of J2.
C24_Witness ==
    /\ inbound = [pushName |-> Str(Alex), previous |-> Str(Al)]
    /\ Len(contactStore) = 2
    /\ contactStore[1].jid = J2
    /\ found.name = Alex
    /\ found.jid = J1

\* C39: every record of the store has a jid of @s.whatsapp.net or @g.us, and
\* in every state addContactToStore called with an @lid jid leaves the store,
\* the timer and its pending callbacks as they are (and so schedules no write).
C39_OnlyWhatsAppJidsStored ==
    /\ \A i \in 1..Len(contactStore) : IsStorable(contactStore[i].jid)
    /\ \A name \in {Undefined, Str(Al), Str(Bo)} :
           addContactToStore(Memory, JLid, Info(Fields, name, name, name)) = Memory

\* The store holds the record of 15@s.whatsapp.net, its save is pending, and
\* a call for 99@lid would change nothing.
C39_Witness ==
    /\ Len(contactStore) = 1
    /\ contactStore[1].jid = J1
    /\ saveTimeout
    /\ pendingSaves = <<1>>
    /\ sinceCall = 0
    /\ addContactToStore(Memory, JLid, Info(Fields, Str(Al), Str(Al), Str(Al))) = Memory

\* The primary file holds what the store holds; a store that never held a
\* record needs no file.
Persisted ==
    \/ primaryFile = Stringify(contactStore)
    \/ primaryFile = Missing /\ contactStore = <<>>

\* C31: whenever the store differs from the content last written to
\* contacts.json (the file as the last successful write left it), a debounced
\* save is pending, also after a save attempt that failed.
C31_UnsavedChangeHasPendingSave ==
    (primaryFile.kind # "corrupt" /\ ~Persisted) => saveTimeout

-----------------------------------------------------------------------------
(* The assistant: handlePAMessage, processWithAI and handleReplyAction,    *)
(* one step per await.                                                     *)

UnavailableText == "Sorry, AI is currently unavailable. Please try again later."
ResponseText == "[PA]: <textResponse>"
UndeliveredText == "[PA]: Sorry, I couldn't deliver the message to the specified target. Here's what I wanted to say: <textResponse>"
SuggestionTexts ==
    {"[PA]: I couldn't find a contact named <targetName>. Did you mean one of these? <suggestionText> Please use the exact name or phone number.",
     "[PA]: I couldn't find a contact named <targetName>. I have <n> contacts but most only have phone numbers. Try using a phone number like: <phone> Or send a message to the person first so I can learn their name.",
     "[PA]: I couldn't find a contact named <targetName>. Please use their phone number instead, or send them a message first so I can learn their name."}

\* The target of a 'reply' action: a string without '@', or user@server
Target(chars) == [at |-> FALSE, user |-> chars, server |-> ""]
JidTarget(jid) == [at |-> TRUE, user |-> jid.user, server |-> jid.server]
NoTarget == Target(<<>>)
SelfTarget == Target(<<"s", "e", "l", "f">>)

ReplyTargets ==
    {SelfTarget, Target(<<"2", "7">>), JidTarget(J2), JidTarget(JGroup),
     Target(<<"B", "O", "B">>), Target(<<"z", "o", "e">>), Target(<<"+", "2", " ", "7">>)}

\* Directories for the lookups of handleReplyAction: none, or 15@s.whatsapp.net
\* known by its pushName or by its number only, followed by 27@s.whatsapp.net
ReplyStores ==
    {<<>>} \cup
    {store \in StorePool :
        /\ Len(store) = 2
        /\ store[1].jid = J1
        /\ store[1].rec \in {Info({"pushName"}, Undefined, Undefined, Str(Al)),
                              Info(Fields, Undefined, UserPart(J1), Undefined)}}

\* What generateResponse does: it throws (no API key, service unreachable),
\* or it returns text that is not JSON, JSON without textResponse or action,
\* or an action.
AiReplies ==
    [kind : {"raises", "plain", "invalid", "negotiate"}, target : {NoTarget}]
    \cup [kind : {"reply"}, target : ReplyTargets]

\* The text of a sock.sendMessage call, by the place of the call
TextOf(place) ==
    CASE place = "unavailable" -> UnavailableText
      [] place = "invalid" ->
           "[PA]: Sorry, I received an invalid response format. Please try again."
      [] place = "trouble" ->
           "Sorry, I had trouble processing your voice message. Please try again or send a text message."
      [] place = "undelivered" -> UndeliveredText
      [] place = "heard" ->
           "I heard you say: <content> You mentioned pocket - AI is currently disabled, but I detected the keyword!"
      [] place = "plain" -> "[PA]: <aiReply>"
      [] place = "didYouMean" ->
           "[PA]: I couldn't find a contact named <targetName>. Did you mean one of these? <suggestionText> Please use the exact name or phone number."
      [] place = "tryNumber" ->
           "[PA]: I couldn't find a contact named <targetName>. I have <n> contacts but most only have phone numbers. Try using a phone number like: <phone> Or send a message to the person first so I can learn their name."
      [] place = "useNumber" ->
           "[PA]: I couldn't find a contact named <targetName>. Please use their phone number instead, or send them a message first so I can learn their name."
      [] OTHER -> ResponseText

NoPA == [pc |-> "idle", enabled |-> TRUE, from |-> NoJid, kind |-> "none", check |-> TRUE,
         aiRaised |-> FALSE, place |-> "none", to |-> NoJid, target |-> NoTarget,
         outcome |-> "none"]

\* await sock.sendMessage(to, { text })
Send(p, to, place) == [p EXCEPT !.pc = "send", !.to = to, !.place = place]

Done(p, outcome) == [p EXCEPT !.pc = "idle", !.outcome = outcome]

\* a processWithAI whose catch block is missing: the error goes to the caller
AfterAiRaisedNoCatch(p) ==
    IF p.kind = "audio" THEN Send(p, p.from, "trouble") ELSE Done(p, "logged")

\* The catch block of processWithAI, entered from generateResponse
AfterAiRaised(p) == Send(p, p.from, "unavailable")

\* processWithAI up to its first await
processWithAI(p) ==
    IF p.enabled THEN [p EXCEPT !.pc = "ai"]
    ELSE IF p.kind = "audio" THEN Send(p, p.from, "heard")
    ELSE Done(p, "done")

\* /^\d+$/.test(target)
OnlyDigits(target) ==
    /\ ~target.at
    /\ target.user # <<>>
    /\ \A i \in 1..Len(target.user) : target.user[i] \in Digits

\* a handleReplyAction without the branch for phone numbers
handleReplyActionNoDigits(p, target) ==
    LET p1 == [p EXCEPT !.target = target]
    IN  CASE target = SelfTarget -> Send(p1, p.from, "reply")
          [] target # SelfTarget /\ target.at ->
               Send(p1, Jid(target.user, target.server), "reply")
          [] OTHER -> [p1 EXCEPT !.pc = "find"]

\* handleReplyAction up to its first await
handleReplyAction(p, target) ==
    LET p1 == [p EXCEPT !.target = target]
    IN  CASE target = SelfTarget -> Send(p1, p.from, "reply")
          [] target # SelfTarget /\ OnlyDigits(target) ->
               Send(p1, Jid(target.user, "s.whatsapp.net"), "reply")
          [] target # SelfTarget /\ ~OnlyDigits(target) /\ target.at ->
               Send(p1, Jid(target.user, target.server), "reply")
          [] OTHER -> [p1 EXCEPT !.pc = "find"]

\* The message tryGetContactNameFromUser sends
SuggestionPlace(store, targetName) ==
    IF possibleMatches(store, targetName) # <<>> THEN "didYouMean"
    ELSE IF \E i \in 1..Len(store) : IsIndividual(store[i].jid) /\ ~Truthy(store[i].rec.name)
         THEN "tryNumber"
         ELSE "useNumber"

\* The catch block that takes the error of a sock.sendMessage call, by the
\* place of the call: the place of the next call, or none when the error is
\* only logged
NextOnThrow(place, kind) ==
    CASE place = "reply" -> "undelivered"
      [] place \in {"undelivered", "plain", "invalid", "response"} -> "unavailable"
      [] place \in {"unavailable", "heard"} -> IF kind = "audio" THEN "trouble" ELSE "none"
      [] OTHER -> "none"

\* The contents of a message: none (no message.message), a text that starts
\* with @PA or @pa, another text, an audio message, another media message
Contents == {"none", "@PA", "text", "audio", "media"}

\* handlePAMessage(sock, message, checkKeywords) up to its first await
handlePAMessage(p0, from, content, check) ==
    LET p == [NoPA EXCEPT !.enabled = p0.enabled, !.from = from, !.check = check,
                          !.kind = IF content = "audio" THEN "audio" ELSE "text"]
    IN  IF from = NoJid THEN Done(p, "skipped")
        ELSE IF content = "audio" THEN [p EXCEPT !.pc = "transcribe"]
        ELSE IF content \notin {"@PA", "text"} THEN Done(p, "skipped")
        ELSE IF check /\ content # "@PA" THEN Done(p, "skipped")
        ELSE processWithAI(p)

\* The call and its sendMessage calls after a step: p is the call, calls the
\* sendMessage calls made before the step.
CallStep(p, calls) ==
    /\ pa' = p
    /\ sent' = IF p.pc = "send"
               THEN Append(calls, [to |-> p.to, text |-> TextOf(p.place)])
               ELSE calls

Proceed(p, calls) ==
    /\ CallStep(p, calls)
    /\ UNCHANGED <<contactVars, resolverVars, storageVars, registryVars, queueVars,
                   startupVars, historyVars, suggestVars, renameVars, saveVars, upsertVars, commandVars, inFlightVars>>

\* await handlePAMessage(sock, message, checkKeywords)
HandlePAMessage(from, content, check) ==
    /\ pa.pc = "idle"
    /\ Proceed(handlePAMessage(pa, from, content, check), <<>>)

\* await downloadMediaMessage and await transcribeAudio: the transcription
\* holds 'pocket', or not, or one of the two throws
TranscribeReturns(result) ==
    /\ pa.pc = "transcribe"
    /\ Proceed(CASE result = "throws" -> Send(pa, pa.from, "trouble")
                 [] result = "other" /\ pa.check -> Done(pa, "skipped")
                 [] OTHER -> processWithAI(pa),
               sent)

\* await generateResponse(content) comes back
GenerateResponseReturns(reply) ==
    /\ pa.pc = "ai"
    /\ Proceed(CASE reply.kind = "raises" -> AfterAiRaised([pa EXCEPT !.aiRaised = TRUE])
                 [] reply.kind = "plain" -> Send(pa, pa.from, "plain")
                 [] reply.kind = "invalid" -> Send(pa, pa.from, "invalid")
                 [] reply.kind = "negotiate" -> Send(pa, pa.from, "response")
                 [] OTHER -> handleReplyAction(pa, reply.target),
               sent)

\* await findContactByName(sock, target) comes back in handleReplyAction; a
\* null goes to tryGetContactNameFromUser
FindContactReturns(reply) ==
    /\ pa.pc = "find"
    /\ LET name == pa.target.user
           r == findContactByName(contactStore, name, reply)
       IN  /\ found' = [name |-> name, reply |-> reply, jid |-> r.jid, probed |-> r.probed]
           /\ suggested' = IF r.jid # Null THEN suggested
                           ELSE [name |-> name, asked |-> TRUE,
                                 candidates |-> possibleMatches(contactStore, name)]
           /\ CallStep(IF r.jid # Null THEN Send(pa, r.jid, "reply")
                       ELSE Send(pa, pa.from, SuggestionPlace(contactStore, name)),
                       sent)
    /\ UNCHANGED <<contactVars, storageVars, registryVars, queueVars, startupVars,
                   historyVars, renameVars, saveVars, upsertVars, commandVars, inFlightVars>>

\* await sock.sendMessage comes back, or throws into the nearest catch block
SendMessageReturns(io) ==
    /\ pa.pc = "send"
    /\ Proceed(IF io = "ok" THEN Done(pa, "done")
               ELSE IF NextOnThrow(pa.place, pa.kind) = "none" THEN Done(pa, "logged")
               ELSE Send(pa, pa.from, NextOnThrow(pa.place, pa.kind)),
               sent)

AssistantIdle ==
    /\ pa = NoPA
    /\ sent = <<>>

\* config.bot.aiEnabled is set or not.
AssistantInit ==
    /\ pa \in {[NoPA EXCEPT !.enabled = e] : e \in BOOLEAN}
    /\ sent = <<>>

AssistantNext ==
    \/ \E from \in {NoJid, J1, G1}, content \in Contents, check \in BOOLEAN :
           HandlePAMessage(from, content, check)
    \/ \E result \in {"pocket", "other", "throws"} : TranscribeReturns(result)
    \/ \E reply \in AiReplies : GenerateResponseReturns(reply)
    \/ \E reply \in {"throws", "exists"} : FindContactReturns(reply)
    \/ \E io \in {"ok", "throws"} : SendMessageReturns(io)

-----------------------------------------------------------------------------
(* The messages.upsert handler of setupPAHandler, for an event with one    *)
(* message.                                                                *)

\* The group whose messages are processed without the keyword check
PaGroup == Jid(<<"1", "2", "0", "3", "6", "3", "4", "2", "0", "7", "8", "6", "6", "8",
                 "3", "0", "3", "8">>, "g.us")

UpsertMessages ==
    {Message(J1, NoJid, fm, Str(Al)) : fm \in BOOLEAN}
    \cup {Message(PaGroup, J2, fm, Str(Al)) : fm \in BOOLEAN}

\* a handler that tests neither 'append' nor 'notify'
DispatchAnyType(type, msg, content) ==
    IF content = "none" THEN <<>>
    ELSE (IF msg.fromMe /\ content \in {"@PA", "audio"} THEN <<TRUE>> ELSE <<>>)
         \o (IF msg.remoteJid = PaGroup THEN <<FALSE>> ELSE <<>>)

\* The handlePAMessage calls the handler makes for a message, each by its
\* checkKeywords argument, in order
Dispatch(type, msg, content) ==
    IF type # "notify" \/ content = "none" THEN <<>>
    ELSE (IF msg.fromMe /\ content \in {"@PA", "audio"} THEN <<TRUE>> ELSE <<>>)
         \o (IF msg.remoteJid = PaGroup THEN <<FALSE>> ELSE <<>>)

NoUpsert == [pc |-> "idle", type |-> "none", msg |-> Message(NoJid, NoJid, FALSE, Undefined),
             content |-> "none", calls |-> 0, todo |-> <<>>]

\* The handler up to its first await: the contact store is updated, then the
\* first handlePAMessage call is made, if any
MessagesUpsertEvent(type, msg, content) ==
    /\ upsert.pc = "idle"
    /\ pa.pc = "idle"
    /\ NoTimerDue
    /\ CommitContacts(IF type = "append" THEN HistoricalMessage(Memory, msg)
                                          ELSE extractContactFromMessage(Memory, msg),
                      Files, FALSE)
    /\ LET calls == Dispatch(type, msg, content)
           event == [NoUpsert EXCEPT !.type = type, !.msg = msg, !.content = content]
       IN  IF calls = <<>>
           THEN /\ upsert' = event
                /\ UNCHANGED assistantVars
           ELSE /\ upsert' = [event EXCEPT !.pc = "await", !.calls = 1, !.todo = Tail(calls)]
                /\ CallStep(handlePAMessage(pa, msg.remoteJid, content, Head(calls)), <<>>)
    /\ UNCHANGED <<resolverVars, storageVars, registryVars, queueVars, startupVars,
                   historyVars, suggestVars, renameVars, saveVars, commandVars, inFlightVars>>

\* An await handlePAMessage of the handler comes back: the next call is made,
\* or the handler ends
UpsertResumes ==
    /\ upsert.pc = "await"
    /\ pa.pc = "idle"
    /\ IF upsert.todo = <<>>
       THEN /\ upsert' = [upsert EXCEPT !.pc = "idle"]
            /\ UNCHANGED assistantVars
       ELSE /\ upsert' = [upsert EXCEPT !.calls = @ + 1, !.todo = Tail(@)]
            /\ CallStep(handlePAMessage(pa, upsert.msg.remoteJid, upsert.content,
                                        Head(upsert.todo)), <<>>)
    /\ UNCHANGED <<contactVars, resolverVars, storageVars, registryVars, queueVars,
                   startupVars, historyVars, suggestVars, renameVars, saveVars,
                   commandVars, inFlightVars>>

UpsertIdle == upsert = NoUpsert

\* The answers of generateResponse to the messages of UpsertMessages
UpsertReplies ==
    {r \in AiReplies : r.kind \in {"raises", "plain"}
                          \/ r.target \in {SelfTarget, Target(<<"z", "o", "e">>)}}

UpsertNext ==
    \/ \E type \in {"notify", "append"}, msg \in UpsertMessages, content \in Contents :
           MessagesUpsertEvent(type, msg, content)
    \/ UpsertResumes
    \/ \E result \in {"pocket", "other", "throws"} : TranscribeReturns(result)
    \/ \E reply \in UpsertReplies : GenerateResponseReturns(reply)
    \/ \E reply \in {"throws"} : FindContactReturns(reply)
    \/ \E io \in {"ok", "throws"} : SendMessageReturns(io)

\* C32: a messages.upsert event of type 'append' only updates the contact
\* store: its step makes no handlePAMessage call, starts no AI request, no
\* download and no sendMessage call, whatever the message holds; every
\* handlePAMessage call belongs to an event of type 'notify'.
C32_AppendOnlyUpdatesContacts ==
    /\ [](upsert.calls > 0 => upsert.type = "notify")
    /\ [](upsert.type = "append" => (upsert.pc = "idle" /\ upsert.calls = 0))
    /\ [][(upsert' # upsert /\ upsert'.type = "append") => (pa' = pa /\ sent' = sent)]_vars

\* An 'append' event with a fromMe @PA message of the designated group was
\* handled after an earlier call had answered: the record of the participant
\* is in the store and the earlier call is untouched.
C32_Witness ==
    /\ upsert.type = "append"
    /\ upsert.msg = Message(PaGroup, J2, TRUE, Str(Al))
    /\ upsert.content = "@PA"
    /\ pa.outcome = "done"
    /\ Len(sent) = 1

\* C37: a message of a 'notify' event triggers at most one handlePAMessage
\* call, a fromMe message with @PA or audio in the designated group included.
C37_OneCallPerMessage == upsert.calls <= 1

\* The recipient handleReplyAction is to send the reply to
ExpectedRecipient ==
    CASE pa.target = SelfTarget -> pa.from
      [] pa.target # SelfTarget /\ OnlyDigits(pa.target) ->
           Jid(pa.target.user, "s.whatsapp.net")
      [] pa.target # SelfTarget /\ ~OnlyDigits(pa.target) /\ pa.target.at ->
           Jid(pa.target.user, pa.target.server)
      [] OTHER -> found.jid

\* handleReplyAction looked the target up by name
LookedUp == pa.target \notin {NoTarget, SelfTarget} /\ ~OnlyDigits(pa.target) /\ ~pa.target.at

\* handleReplyAction made its sendMessage call for the reply
ReplyAttempted ==
    /\ pa.target # NoTarget
    /\ Len(sent) >= 1
    /\ sent[1].text = ResponseText

\* C33: handleReplyAction sends the reply to one recipient: the original
\* sender for 'self', <target>@s.whatsapp.net for an all-digit target, the
\* target itself when it holds '@', else the jid findContactByName returned;
\* when the send succeeds nothing else is sent.  When the lookup returns null
\* the only sendMessage call is the suggestion message to the original sender.
\* When the send to the target throws, the next call sends the original
\* sender the fallback text with the response.
C33_ReplyGoesToResolvedTarget ==
    /\ ReplyAttempted =>
          /\ sent[1].to = ExpectedRecipient
          /\ LookedUp => (found.name = pa.target.user /\ found.jid # Null)
          /\ (pa.pc = "idle" /\ pa.place = "reply") => (pa.outcome = "done" /\ Len(sent) = 1)
          /\ pa.place # "reply" =>
                (Len(sent) >= 2 /\ sent[2] = [to |-> pa.from, text |-> UndeliveredText])
    /\ (pa.target # NoTarget /\ pa.pc # "find" /\ LookedUp /\ found.jid = Null) =>
          /\ Len(sent) = 1
          /\ sent[1].to = pa.from
          /\ sent[1].text \in SuggestionTexts
    /\ (pa.target # NoTarget /\ pa.pc # "find") => (ReplyAttempted \/ (LookedUp /\ found.jid = Null))

\* The reply to the name 'BOB' went to the record of 27@s.whatsapp.net, the
\* second of the store, and the send succeeded.
C33_Witness ==
    /\ pa.target = Target(<<"B", "O", "B">>)
    /\ pa.from = J1
    /\ pa.pc = "idle"
    /\ pa.outcome = "done"
    /\ found.jid = J2
    /\ Len(contactStore) = 2
    /\ sent = <<[to |-> J2, text |-> ResponseText]>>

\* C38: when handleReplyAction goes to tryGetContactNameFromUser after
\* findContactByName returned null on the same store, no candidate of the
\* 'Did you mean' list has a non-empty name or notify.
C38_CandidatesHaveNoName ==
    (LookedUp /\ pa.pc # "find" /\ found.jid = Null /\ suggested.asked
        /\ suggested.name = found.name) =>
       \A i \in 1..Len(suggested.candidates) :
           /\ ~Truthy(suggested.candidates[i].rec.name)
           /\ ~Truthy(suggested.candidates[i].rec.notify)

\* The lookup of 'zoe' returned null and the list names a record known by
\* its pushName only.
C38_Witness ==
    /\ LookedUp
    /\ pa.target = Target(<<"z", "o", "e">>)
    /\ found.jid = Null
    /\ suggested.asked
    /\ suggested.candidates # <<>>
    /\ Truthy(suggested.candidates[1].rec.pushName)
    /\ pa.place = "didYouMean"

\* C29: when generateResponse raises, the first sock.sendMessage call of the
\* handlePAMessage call goes to the original sender with the text 'Sorry, AI
\* is currently unavailable. Please try again later.', every call of it goes to
\* the original sender, no step of the call changes contactStore or
\* groupsCache, and the call ends without raising.
C29_AiFailureAnswersSender ==
    /\ [](pa.aiRaised =>
            /\ Len(sent) >= 1
            /\ sent[1] = [to |-> pa.from, text |-> UnavailableText]
            /\ \A i \in 1..Len(sent) : sent[i].to = pa.from
            /\ pa.outcome \in {"none", "done", "logged"})
    /\ [][pa' # pa => (contactStore' = contactStore /\ groupsCache' = groupsCache)]_vars

\* generateResponse raised for a message of J1 and the call has ended after
\* one sendMessage call.
C29_Witness ==
    /\ pa.aiRaised
    /\ pa.pc = "idle"
    /\ pa.from = J1
    /\ pa.outcome = "done"
    /\ sent = <<[to |-> J1, text |-> UnavailableText]>>

-----------------------------------------------------------------------------
(* saveGroupHistory calls that run side by side, one step per await, on a  *)
(* file system that does not fail.                                         *)

Conversations == {G1, G2}

NoSave == [pc |-> "idle", fetchedAt |-> 0, index |-> <<>>]

\* What a saveGroupHistory call leaves alone, besides the files.
outsideInFlight == <<contactVars, resolverVars, registryVars, queueVars, startupVars,
                     suggestVars, renameVars, assistantVars, saveVars, upsertVars,
                     commandVars>>

\* saveGroupHistory(historyData) is called: await ensureCacheDir()
SaveHistoryCalled(jid) ==
    /\ saves[jid].pc \in {"idle", "done"}
    /\ saves' = [saves EXCEPT ![jid] = [NoSave EXCEPT !.pc = "mkdir"]]
    /\ UNCHANGED <<storageVars, historyVars>>
    /\ UNCHANGED outsideInFlight

\* fetchedAt: Date.now(), then await fs.writeFile(cacheFile, ...)
HistoryDirEnsured(jid) ==
    /\ saves[jid].pc = "mkdir"
    /\ saves' = [saves EXCEPT ![jid].pc = "write", ![jid].fetchedAt = now]
    /\ UNCHANGED <<storageVars, historyVars>>
    /\ UNCHANGED outsideInFlight

\* The write of the history file is done; updateHistoryIndex starts:
\* await fs.readFile(HISTORY_INDEX_FILE)
HistoryFileWritten(jid) ==
    /\ saves[jid].pc = "write"
    /\ LET written == HistoryOf(jid, saves[jid].fetchedAt, <<"m1">>)
       IN  /\ historyFile' = IF jid = G1 THEN written ELSE historyFile
           /\ historyFileG2' = IF jid = G1 THEN historyFileG2 ELSE written
    /\ saves' = [saves EXCEPT ![jid].pc = "readIndex"]
    /\ UNCHANGED <<now, groupsFile, loaded, history, historyIndex, cleaned>>
    /\ UNCHANGED outsideInFlight

\* The index is read and parsed; index[groupJid] = ...;
\* await fs.writeFile(HISTORY_INDEX_FILE, ...)
HistoryIndexRead(jid) ==
    /\ saves[jid].pc = "readIndex"
    /\ LET old == IF historyIndex.kind = "json" THEN historyIndex.entries ELSE <<>>
       IN  saves' = [saves EXCEPT ![jid].pc = "writeIndex",
                                  ![jid].index = IndexAssign(old, jid, saves[jid].fetchedAt)]
    /\ UNCHANGED <<storageVars, historyVars>>
    /\ UNCHANGED outsideInFlight

\* The write of the index is done; saveGroupHistory returns
HistoryIndexWritten(jid) ==
    /\ saves[jid].pc = "writeIndex"
    /\ historyIndex' = IndexFile(saves[jid].index)
    /\ saves' = [saves EXCEPT ![jid].pc = "done"]
    /\ UNCHANGED <<storageVars, history, historyFileG2, cleaned>>
    /\ UNCHANGED outsideInFlight

InFlightIdle == saves = [jid \in Conversations |-> NoSave]

InFlightNext ==
    \/ \E jid \in Conversations : SaveHistoryCalled(jid)
    \/ \E jid \in Conversations : HistoryDirEnsured(jid)
    \/ \E jid \in Conversations : HistoryFileWritten(jid)
    \/ \E jid \in Conversations : HistoryIndexRead(jid)
    \/ \E jid \in Conversations : HistoryIndexWritten(jid)
    \/ \E ms \in {1, cacheExpiryHours * MsPerHour} : ClockAdvances(ms)

\* C36: when no saveGroupHistory call is in flight, the index holds for every
\* conversation saved an entry whose fetchedAt is the fetchedAt of the
\* conversation's history file.
C36_NoIndexUpdateLost ==
    (\A jid \in Conversations : saves[jid].pc \in {"idle", "done"}) =>
        \A jid \in Conversations :
            saves[jid].pc = "done" =>
                /\ historyIndex.kind = "json"
                /\ \E k \in 1..Len(historyIndex.entries) :
                      historyIndex.entries[k]
                        = IndexEntry(jid, HistoryFileOf(jid).fetchedAt)

-----------------------------------------------------------------------------
(* The storage operations under I/O failures: saveGroups, clearCache,      *)
(* saveGroupHistory, saveContactsNow and clearAllContacts, each called     *)
(* on its own.                                                             *)

\* await groupsStorage.saveGroups(groups)
SaveGroups(groups, io) ==
    /\ groupsFile' = saveGroups(groupsFile, groups, now, io)
    /\ storageCall' = StorageCall("saveGroups", io, "returned")
    /\ UNCHANGED <<now, historyFile, loaded>>
    /\ UNCHANGED <<contactVars, resolverVars, registryVars, queueVars, startupVars,
                   historyVars, suggestVars, renameVars, assistantVars, upsertVars, commandVars, inFlightVars>>

\* await groupsStorage.clearCache()
ClearCache(io) ==
    /\ groupsFile' = IF io = "ok" /\ groupsFile.kind # "missing" THEN GroupsMissing
                     ELSE groupsFile
    /\ storageCall' = StorageCall("clearCache",
                                  IF groupsFile.kind = "missing" THEN "fails" ELSE io,
                                  "returned")
    /\ UNCHANGED <<now, historyFile, loaded>>
    /\ UNCHANGED <<contactVars, resolverVars, registryVars, queueVars, startupVars,
                   historyVars, suggestVars, renameVars, assistantVars, upsertVars, commandVars, inFlightVars>>

\* await saveGroupHistory(historyData) ends: the catch block logs and throws
\* the error of fs.writeFile again; ensureCacheDir and updateHistoryIndex keep
\* their own errors
SaveGroupHistoryEnds(jid, messages, io) ==
    /\ WriteGroupHistory(jid, messages, io)
    /\ storageCall' = StorageCall("saveGroupHistory", io.file,
                                  IF io.file = "ok" THEN "returned" ELSE "raised")

\* await saveContactsNow() and await clearAllContacts(): savePersistedContacts
\* keeps every error of its body
ContactsSaved(op, io) ==
    /\ NoTimerDue
    /\ LET cleared == op = "clearAllContacts"
           contacts == IF cleared THEN <<>> ELSE contactStore
       IN  CommitContacts([Memory EXCEPT !.store = contacts],
                          savePersistedContacts(Files, contacts, io), cleared)
    /\ storageCall' = StorageCall(op, io, "returned")
    /\ UNCHANGED <<resolverVars, storageVars, registryVars, queueVars, startupVars,
                   historyVars, suggestVars, renameVars, assistantVars, upsertVars, commandVars, inFlightVars>>

SavesIdle == storageCall = NoStorageCall

MoreIdle ==
    /\ RenameIdle
    /\ AssistantIdle
    /\ SavesIdle
    /\ UpsertIdle
    /\ CommandsIdle
    /\ InFlightIdle

SavesNext ==
    \/ \E groups \in {<<>>, <<FamGroup(10)>>}, io \in WriteOutcomes : SaveGroups(groups, io)
    \/ \E io \in ReadOutcomes : ClearCache(io)
    \/ \E jid \in {G1, G2}, messages \in {<<"m1">>}, io \in SaveHistoryOutcomes :
           SaveGroupHistoryEnds(jid, messages, io)
    \/ \E op \in {"saveContactsNow", "clearAllContacts"}, io \in SaveOutcomes :
           ContactsSaved(op, io)

\* C30: no storage operation raises to its caller when its I/O fails:
\* saveGroups, saveGroupHistory, saveContactsNow, clearAllContacts and
\* clearCache return normally whatever the file system does.
C30_StorageOperationsNeverRaise == storageCall.outcome # "raised"

-----------------------------------------------------------------------------
(* Specifications.                                                         *)

RestIdle ==
    /\ QueueIdle
    /\ StartupIdle
    /\ HistoryIdle
    /\ SuggestIdle
    /\ MoreIdle

\* The contact directory under events, timers and the clock.
Init ==
    /\ ContactsInit
    /\ ResolverIdle
    /\ StorageIdle
    /\ RegistryIdle
    /\ RestIdle

Next == ContactsNext

Spec == Init /\ [][Next]_vars

\* findContactByName over every directory of StorePool.
SpecResolverInit ==
    /\ ResolverInit
    /\ StorageIdle
    /\ RegistryIdle
    /\ RestIdle

SpecResolver == SpecResolverInit /\ [][ResolverNext]_vars

\* Direct loads of the two snapshot stores.
SpecTtlInit ==
    /\ ContactsInit
    /\ ResolverIdle
    /\ TtlInit
    /\ RegistryIdle
    /\ RestIdle

SpecTtl == SpecTtlInit /\ [][TtlNext]_vars

\* Direct loads of snapshots of two format versions.
SpecVersionsInit ==
    /\ ContactsInit
    /\ ResolverIdle
    /\ VersionInit
    /\ RegistryIdle
    /\ RestIdle

SpecVersions == SpecVersionsInit /\ [][VersionNext]_vars

\* getAllGroups against a transport that answers anything.
SpecRegistryInit ==
    /\ ContactsInit
    /\ ResolverIdle
    /\ RegistryInit
    /\ RestIdle

SpecRegistry == SpecRegistryInit /\ [][RegistryNext]_vars

\* The metadata queue under group events, timers and any answer of the transport.
SpecQueueInit ==
    /\ ContactsInit
    /\ ResolverIdle
    /\ QueueInit
    /\ StartupIdle
    /\ HistoryIdle
    /\ SuggestIdle
    /\ MoreIdle

SpecQueue == SpecQueueInit /\ [][QueueNext]_vars

\* The same, when timers fire and every await comes back.
SpecQueueFair ==
    /\ SpecQueue
    /\ WF_vars(\E ms \in TimerDelays : ProcessMetadataQueue(ms))
    /\ WF_vars(\E i \in 1..Len(runs) : FetchDelayElapsed(i))
    /\ WF_vars(\E i \in 1..Len(runs), reply \in MetadataReplies : GroupMetadataReturns(i, reply))

\* The start of a process on the contact files of an earlier one.
SpecStartupInit ==
    /\ StartupInit
    /\ ResolverIdle
    /\ StorageIdle
    /\ RegistryIdle
    /\ QueueIdle
    /\ HistoryIdle
    /\ SuggestIdle
    /\ MoreIdle

SpecStartup == SpecStartupInit /\ [][StartupNext]_vars

\* The loaders and their callers over the files of earlier runs.
SpecLoadersInit ==
    /\ ContactsInit
    /\ ResolverIdle
    /\ TtlInit
    /\ groupsCache \in {<<>>, <<FamGroup(10)>>}
    /\ call = NoCall
    /\ RestIdle

SpecLoaders == SpecLoadersInit /\ [][LoadersNext]_vars

\* Saved histories, the clock and cleanExpiredHistoryCache.
SpecHistoryInit ==
    /\ ContactsInit
    /\ ResolverIdle
    /\ StorageIdle
    /\ RegistryIdle
    /\ RestIdle

SpecHistory == SpecHistoryInit /\ [][HistoryNext]_vars

\* tryGetContactNameFromUser over every directory of StorePool.
SpecSuggest == SpecResolverInit /\ [][SuggestNext]_vars

\* The contact directory when setupPAHandler may run again.
SpecDirectory == Init /\ [][DirectoryNext]_vars

\* The storage operations against a file system that may fail.
SpecSaves == Init /\ [][SavesNext]_vars

\* /cacheinfo and /groups between getAllGroups calls.
SpecCommands == SpecRegistryInit /\ [][CommandsNext]_vars

\* Group events, the metadata queue and non-forced getAllGroups calls on a
\* registry filled from its snapshot.
SpecPatchInit ==
    /\ ContactsInit
    /\ ResolverIdle
    /\ PatchInit
    /\ StartupIdle
    /\ HistoryIdle
    /\ SuggestIdle
    /\ MoreIdle

SpecPatch == SpecPatchInit /\ [][PatchNext]_vars

\* saveGroupHistory calls for two conversations, interleaved at their awaits.
SpecInFlight == Init /\ [][InFlightNext]_vars

\* handlePAMessage against an assistant service and a transport that may fail.
SpecAssistantInit ==
    /\ ContactsInit
    /\ ResolverIdle
    /\ StorageIdle
    /\ RegistryIdle
    /\ QueueIdle
    /\ StartupIdle
    /\ HistoryIdle
    /\ SuggestIdle
    /\ RenameIdle
    /\ AssistantInit
    /\ SavesIdle
    /\ UpsertIdle
    /\ CommandsIdle
    /\ InFlightIdle

SpecAssistant == SpecAssistantInit /\ [][AssistantNext]_vars

\* handleReplyAction over the directories of ReplyStores.
SpecReplyInit ==
    /\ contactStore \in ReplyStores
    /\ ContactsIdle
    /\ ResolverIdle
    /\ StorageIdle
    /\ RegistryIdle
    /\ QueueIdle
    /\ StartupIdle
    /\ HistoryIdle
    /\ SuggestIdle
    /\ RenameIdle
    /\ AssistantInit
    /\ SavesIdle
    /\ UpsertIdle
    /\ CommandsIdle
    /\ InFlightIdle

SpecReply == SpecReplyInit /\ [][AssistantNext]_vars

\* messages.upsert events, one message each, and the calls they make.
SpecUpsert == SpecAssistantInit /\ [][UpsertNext]_vars

\* Messages of a sender who changes pushName, timers and name resolutions.
SpecRename == Init /\ [][RenameNext]_vars

=============================================================================
